---- MODULE Spec2Model ----
(***************************************************************************)
(* Unified CLI execution engine (apps/api/app/services/cli/                *)
(* unified_manager.py) with its task driver (apps/api/app/api/chat/act.py).*)
(*                                                                         *)
(* A task is one execute_act_task background task.  It builds a fresh      *)
(* UnifiedCLIManager, which asks the chosen adapter for availability and   *)
(* then consumes the adapter's message generator: every yielded message is *)
(* committed to the message store and, unless hidden, sent to the          *)
(* WebSocket sink.  The two adapters are the Claude SDK stream             *)
(* (ClaudeCodeCLI) and the cursor-agent subprocess that prints NDJSON      *)
(* (CursorAgentCLI).                                                       *)
(***************************************************************************)
EXTENDS Naturals, Sequences, FiniteSets, TLC

(***************************************************************************)
(* Bounds of the model.                                                    *)
(***************************************************************************)
\* stdout lines (cursor) or SDK events (claude) one run may deliver in Spec
MaxLines == 3
\* requests one task may serve one after the other in Spec
MaxRuns == 2
\* lines or events per run in the concurrent specification SpecConc
ConcLines == 2
\* calls made on one CLISessionManager
MaxOps == 4

None == "None"

Tasks == {1, 2}
Projects == {"p1", "p2"}
\* session ids a backend may issue
SessionIds == {"s1", "s2"}
\* Session.id of the chat session row the driver passes down as session_id
ChatSessionId == "chat"
\* the working directory of the API process before any run
HomeDir == <<"srv">>

\* settings.projects_root / project_id / "repo"
RepoPath(p) == <<"data", "projects", p, "repo">>

\* Python truthiness of an Optional[str]
Truthy(s) == s # None /\ s # ""

\* a or b on Optional[str]
Or(a, b) == IF Truthy(a) THEN a ELSE b

\* dict.get(key, default)
Get(d, key, default) == IF key \in DOMAIN d THEN d[key] ELSE default

\* the empty dict {}
EmptyDict == [k \in {} |-> None]

\* Optional[Message] and yielded messages are sequences of messages
NoMessage == <<>>

(***************************************************************************)
(* Tool names and the rich tool summary.  The source quotes the argument   *)
(* with a backquote, written here as an apostrophe.                        *)
(***************************************************************************)
tool_mapping ==
    [read_file |-> "Read", read |-> "Read", write_file |-> "Write",
     write |-> "Write", edit_file |-> "Edit", replace |-> "Edit",
     edit |-> "Edit", delete |-> "Delete", shell |-> "Bash",
     run_terminal_command |-> "Bash", search_file_content |-> "Grep",
     codebase_search |-> "Grep", grep |-> "Grep", find_files |-> "Glob",
     glob |-> "Glob", list_directory |-> "LS", list_dir |-> "LS",
     ls |-> "LS", semSearch |-> "SemSearch",
     google_web_search |-> "WebSearch", web_search |-> "WebSearch",
     web_fetch |-> "WebFetch", save_memory |-> "SaveMemory"]

_normalize_tool_name(tool_name) == Get(tool_mapping, tool_name, tool_name)

\* "/".join(parts)
RECURSIVE JoinPath(_)
JoinPath(parts) ==
    IF parts = <<>> THEN ""
    ELSE IF Len(parts) = 1 THEN parts[1]
    ELSE parts[1] \o "/" \o JoinPath(Tail(parts))

\* the character budget of a displayed path
PathBudget == 40

Min2(a, b) == IF a < b THEN a ELSE b

\* a path is the sequence of its components; none of the modelled paths
\* lies under the API's own checkout, so get_display_path returns it as is
get_display_path(file_path) == JoinPath(file_path)

\* tool_input.get("file_path") or tool_input.get("path") or tool_input.get("file", "")
FilePathOf(tool_input) ==
    LET a == Get(tool_input, "file_path", <<>>)
        b == Get(tool_input, "path", <<>>)
    IN  IF a # <<>> THEN a ELSE IF b # <<>> THEN b
        ELSE Get(tool_input, "file", <<>>)

FileSummary(label, tool_input) ==
    LET file_path == FilePathOf(tool_input)
        n == Len(file_path)
        display_path == get_display_path(file_path)
    IN  IF file_path # <<>>
        THEN IF Len(display_path) > PathBudget
             THEN "**" \o label \o "** '.../"
                  \o JoinPath(SubSeq(file_path, IF n > 2 THEN n - 1 ELSE 1, n)) \o "'"
             ELSE "**" \o label \o "** '" \o display_path \o "'"
        ELSE "**" \o label \o "** 'file'"

\* a.get(k1) or a.get(k2) or a.get(k3, "") on fields that hold strings
StrField(tool_input, keys) ==
    LET hit == {i \in 1..Len(keys) : Get(tool_input, keys[i], "") # ""}
    IN  IF hit = {} THEN ""
        ELSE tool_input[keys[CHOOSE i \in hit : \A j \in hit : i <= j]]

\* the same on fields that hold paths
PathField(tool_input, keys) ==
    LET hit == {i \in 1..Len(keys) : Get(tool_input, keys[i], <<>>) # <<>>}
    IN  IF hit = {} THEN <<>>
        ELSE tool_input[keys[CHOOSE i \in hit : \A j \in hit : i <= j]]

\* s[:n] + "..." if len(s) > n else s
Shorten(s, n) == IF Len(s) > n THEN SubSeq(s, 1, n) \o "..." ELSE s

\* s.find(sub, i), 1-based, 0 when sub does not occur at or after i
RECURSIVE Find(_, _, _)
Find(s, sub, i) ==
    IF i + Len(sub) - 1 > Len(s) THEN 0
    ELSE IF SubSeq(s, i, i + Len(sub) - 1) = sub THEN i
    ELSE Find(s, sub, i + 1)

\* s.split(sub)[-1] on s[i:]
RECURSIVE SplitLast(_, _, _)
SplitLast(s, sub, i) ==
    LET k == Find(s, sub, i)
    IN  IF k = 0 THEN SubSeq(s, i, Len(s)) ELSE SplitLast(s, sub, k + Len(sub))

\* s.split(sub)[0]
SplitFirst(s, sub) ==
    LET k == Find(s, sub, 1)
    IN  IF k = 0 THEN s ELSE SubSeq(s, 1, k - 1)

\* url.split("//")[-1].split("/")[0] if "//" in url else url.split("/")[0]
UrlDomain(url) ==
    IF Find(url, "//", 1) # 0 THEN SplitFirst(SplitLast(url, "//", 1), "/")
    ELSE SplitFirst(url, "/")

Whitespace == {" ", "\t", "\n"}

\* command.split()[0] if command.split() else command
RECURSIVE FirstWordFrom(_, _, _)
FirstWordFrom(command, i, j) ==
    IF i > Len(command) THEN command
    ELSE IF SubSeq(command, i, i) \in Whitespace /\ j = i
    THEN FirstWordFrom(command, i + 1, i + 1)
    ELSE IF j > Len(command) \/ SubSeq(command, j, j) \in Whitespace
    THEN SubSeq(command, i, j - 1)
    ELSE FirstWordFrom(command, i, j + 1)

FirstWord(command) == FirstWordFrom(command, 1, 1)

\* lines 409-414 and 416-422: the LS and Delete displays of a path
PathSummary(prefix, label, path, tail37) ==
    LET n == Len(path)
        display_path == get_display_path(path)
        m == Len(display_path)
    IN  IF path # <<>>
        THEN IF m > PathBudget
             THEN prefix \o "**" \o label \o "** '.../"
                  \o (IF tail37 THEN SubSeq(display_path, m - 36, m)
                      ELSE JoinPath(SubSeq(path, IF n > 2 THEN n - 1 ELSE 1, n)))
                  \o "'"
             ELSE prefix \o "**" \o label \o "** '" \o display_path \o "'"
        ELSE prefix \o "**" \o label \o "** '"
             \o (IF tail37 THEN "directory" ELSE "file") \o "'"

\* lines 329-469.  The pictographs the source puts before MultiEdit, LS, Task,
\* ExitPlanMode and NotebookEdit are written [tool], [dir], [task], [ok], [nb].
_create_tool_summary(tool_name, tool_input) ==
    LET normalized_name == _normalize_tool_name(tool_name)
    IN  IF normalized_name \in {"Edit", "Read"}
        THEN FileSummary(normalized_name, tool_input)
        ELSE IF normalized_name = "Bash"
        THEN LET command == StrField(tool_input, <<"command", "cmd", "script">>)
             IN  IF command # ""
                 THEN "**Bash** '" \o Shorten(command, 40) \o "'"
                 ELSE "**Bash** 'command'"
        ELSE IF normalized_name = "TodoWrite"
        THEN "'Planning for next moves...'"
        ELSE IF normalized_name = "SaveMemory"
        THEN LET fact == Get(tool_input, "fact", "")
             IN  IF fact # ""
                 THEN "**SaveMemory** '" \o Shorten(fact, 40) \o "'"
                 ELSE "**SaveMemory** 'storing information'"
        ELSE IF normalized_name = "Grep"
        THEN LET pattern == StrField(tool_input, <<"pattern", "query", "search">>)
                 path == PathField(tool_input, <<"path", "file", "directory">>)
             IN  IF pattern # ""
                 THEN IF path # <<>>
                      THEN "**Search** '" \o pattern \o "' in '"
                           \o get_display_path(path) \o "'"
                      ELSE "**Search** '" \o pattern \o "'"
                 ELSE "**Search** 'pattern'"
        ELSE IF normalized_name = "Glob"
        THEN IF tool_name = "find_files"
             THEN LET name == Get(tool_input, "name", "")
                  IN  IF name # "" THEN "**Glob** '" \o name \o "'"
                      ELSE "**Glob** 'finding files'"
             ELSE LET pattern == StrField(tool_input, <<"pattern", "globPattern">>)
                  IN  IF pattern # "" THEN "**Glob** '" \o pattern \o "'"
                      ELSE "**Glob** 'pattern'"
        ELSE IF normalized_name = "Write"
        THEN FileSummary(normalized_name, tool_input)
        ELSE IF normalized_name = "MultiEdit"
        THEN "[tool] " \o FileSummary(normalized_name, tool_input)
        ELSE IF normalized_name = "LS"
        THEN PathSummary("[dir] ", "LS",
                         PathField(tool_input, <<"path", "directory", "dir">>), TRUE)
        ELSE IF normalized_name = "Delete"
        THEN PathSummary("", "Delete", Get(tool_input, "path", <<>>), FALSE)
        ELSE IF normalized_name = "SemSearch"
        THEN LET query == Get(tool_input, "query", "")
             IN  IF query # "" THEN "**SemSearch** '" \o Shorten(query, 40) \o "'"
                 ELSE "**SemSearch** 'query'"
        ELSE IF normalized_name = "WebFetch"
        THEN LET url == Get(tool_input, "url", "")
                 prompt == Get(tool_input, "prompt", "")
             IN  IF url # "" /\ prompt # ""
                 THEN "**WebFetch** [" \o UrlDomain(url) \o "](" \o url \o ")\n> "
                      \o Shorten(prompt, 30)
                 ELSE IF url # ""
                 THEN "**WebFetch** [" \o UrlDomain(url) \o "](" \o url \o ")"
                 ELSE "**WebFetch** 'url'"
        ELSE IF normalized_name = "WebSearch"
        THEN LET query == Get(tool_input, "query", "")
             IN  IF query # "" THEN "**WebSearch** '" \o Shorten(query, 40) \o "'"
                 ELSE "**WebSearch** 'query'"
        ELSE IF normalized_name = "Task"
        THEN LET description == Get(tool_input, "description", "")
                 subagent_type == Get(tool_input, "subagent_type", "")
             IN  IF description # "" /\ subagent_type # ""
                 THEN "[task] **Task** '" \o subagent_type \o "'\n> "
                      \o Shorten(description, 50)
                 ELSE IF description # ""
                 THEN "[task] **Task** '" \o Shorten(description, 40) \o "'"
                 ELSE "[task] **Task** 'subtask'"
        ELSE IF normalized_name = "ExitPlanMode"
        THEN "[ok] **ExitPlanMode** 'planning complete'"
        ELSE IF normalized_name = "NotebookEdit"
        THEN LET notebook_path == Get(tool_input, "notebook_path", <<>>)
             IN  IF notebook_path # <<>>
                 THEN "[nb] **NotebookEdit** '"
                      \o notebook_path[Len(notebook_path)] \o "'"
                 ELSE "[nb] **NotebookEdit** 'notebook'"
        ELSE "**" \o tool_name \o "** 'executing...'"

\* lines 283-327
_get_clean_tool_display(tool_name, tool_input) ==
    LET normalized_name == _normalize_tool_name(tool_name)
        verb == CASE normalized_name = "Read" -> "Reading"
                  [] normalized_name = "Write" -> "Writing"
                  [] OTHER -> "Editing"
    IN  IF normalized_name \in {"Read", "Write", "Edit"}
        THEN LET file_path == FilePathOf(tool_input)
             IN  IF file_path # <<>>
                 THEN verb \o " " \o file_path[Len(file_path)]
                 ELSE verb \o " file"
        ELSE IF normalized_name = "Bash"
        THEN LET command == StrField(tool_input, <<"command", "cmd", "script">>)
             IN  IF command # "" THEN "Running " \o FirstWord(command)
                 ELSE "Running command"
        ELSE IF normalized_name = "LS" THEN "Listing directory"
        ELSE IF normalized_name = "TodoWrite" THEN "Planning next steps"
        ELSE IF normalized_name = "WebSearch"
        THEN LET query == Get(tool_input, "query", "")
             IN  IF query # ""
                 THEN "Searching: " \o SubSeq(query, 1, Min2(50, Len(query))) \o "..."
                 ELSE "Web search"
        ELSE IF normalized_name = "WebFetch"
        THEN LET url == Get(tool_input, "url", "")
             IN  IF url # "" THEN "Fetching from " \o UrlDomain(url)
                 ELSE "Fetching web content"
        ELSE "Using " \o tool_name

(***************************************************************************)
(* Messages.  A Message row is modelled by the fields the engine reads:    *)
(* role, message_type, content and metadata_json (a dict).                 *)
(***************************************************************************)
Message(role, message_type, content, metadata_json) ==
    [role |-> role, message_type |-> message_type, content |-> content,
     metadata_json |-> metadata_json]

(***************************************************************************)
(* The cursor-agent stdout.  A line is line.decode().strip() together with *)
(* what json.loads makes of it: "object" (a dict, the event), "value"      *)
(* (valid JSON that is no dict), "JSONDecodeError", or the empty line.     *)
(***************************************************************************)
JsonLine(event) == [line_str |-> "{...}", loads |-> "object", event |-> event]

BlankLine == [line_str |-> "", loads |-> "blank", event |-> EmptyDict]

MalformedLine(raw) ==
    [line_str |-> raw, loads |-> "JSONDecodeError", event |-> EmptyDict]

ValueLine(raw) == [line_str |-> raw, loads |-> "value", event |-> EmptyDict]

TextPart(text) == [type |-> "text", text |-> text]

SystemEvents ==
    {[type |-> "system", model |-> "gpt-5"]}
    \cup {[type |-> "system", model |-> "gpt-5", session_id |-> s] : s \in SessionIds}

\* the text of the prompt cursor-agent echoes
PromptEcho == "PROMPT"

UserEvents ==
    {[type |-> "user",
      message |-> [role |-> "user", content |-> <<TextPart(PromptEcho)>>]]}

AssistantEvents ==
    {[type |-> "assistant", message |-> [content |-> <<TextPart(x)>>]] : x \in {"a", "b"}}

ToolCallEvents ==
    {[type |-> "tool_call", subtype |-> "started",
      tool_call |-> [writeToolCall |-> [args |-> [path |-> <<"x">>]]]],
     [type |-> "tool_call", subtype |-> "completed",
      tool_call |-> [writeToolCall |-> [result |-> [success |-> "ok"]]]]}

ResultEvents ==
    {[type |-> "result", subtype |-> "success", is_error |-> FALSE,
      result |-> "ok", duration_ms |-> 1, session_id |-> "s2"],
     [type |-> "result", subtype |-> "success", is_error |-> FALSE,
      result |-> "ok", duration_ms |-> 1],
     [type |-> "result", subtype |-> "success", is_error |-> TRUE,
      result |-> "ok", duration_ms |-> 1],
     [type |-> "result", subtype |-> "error", is_error |-> FALSE,
      result |-> "boom", duration_ms |-> 1],
     [type |-> "result", is_error |-> FALSE, result |-> "ok", duration_ms |-> 1],
     [type |-> "result", subtype |-> "success", is_error |-> FALSE,
      result |-> "", duration_ms |-> 1],
     [type |-> "result", subtype |-> "error", is_error |-> TRUE,
      duration_ms |-> 1, session_id |-> "s1"]}

CursorLines ==
    {JsonLine(e) : e \in SystemEvents \cup UserEvents \cup AssistantEvents
                         \cup ToolCallEvents \cup ResultEvents}
    \cup {BlankLine, MalformedLine("x{"), ValueLine("5")}

\* the lines of the concurrent specification
ConcCursorLines ==
    {JsonLine(e) : e \in SystemEvents}
    \cup {JsonLine([type |-> "result", subtype |-> "success", is_error |-> FALSE,
                    result |-> "ok", duration_ms |-> 1])}

\* tool_name_raw.replace("ToolCall", "") on the tool keys of the events
StripToolCall(tool_name_raw) ==
    CASE tool_name_raw = "writeToolCall" -> "write"
      [] tool_name_raw = "lsToolCall" -> "ls"
      [] tool_name_raw = "readToolCall" -> "read"
      [] OTHER -> tool_name_raw

\* the text parts of event["message"]["content"], concatenated
RECURSIVE PartsText(_)
PartsText(parts) ==
    IF parts = <<>> THEN ""
    ELSE (IF Get(parts[1], "type", None) = "text"
          THEN Get(parts[1], "text", "") ELSE "")
         \o PartsText(Tail(parts))

\* json.dumps of a tool result payload
JsonDumps(v) == "\"" \o v \o "\""

\* f"{duration}"
DurationStr(d) == IF d = 0 THEN "0" ELSE "1"

_handle_cursor_stream_json(event) ==
    LET event_type == Get(event, "type", None)
    IN
    IF event_type = "system"
    THEN <<Message("system", "system",
                   "Cursor Agent initialized (Model: "
                       \o Get(event, "model", "unknown") \o ")",
                   [cli_type |-> "cursor", event_type |-> "system",
                    original_event |-> event, hidden_from_ui |-> TRUE])>>
    ELSE IF event_type = "user"
    THEN NoMessage
    ELSE IF event_type = "assistant"
    THEN LET message_content == Get(Get(event, "message", EmptyDict), "content", <<>>)
             content == PartsText(message_content)
         IN  IF content # ""
             THEN <<Message("assistant", "chat", content,
                            [cli_type |-> "cursor", event_type |-> "assistant",
                             original_event |-> event])>>
             ELSE NoMessage
    ELSE IF event_type = "tool_call"
    THEN LET subtype == Get(event, "subtype", None)
             tool_call_data == Get(event, "tool_call", EmptyDict)
         IN  IF DOMAIN tool_call_data = {}
             THEN NoMessage
             ELSE
             LET tool_name_raw == CHOOSE k \in DOMAIN tool_call_data : TRUE
                 tool_name == StripToolCall(tool_name_raw)
             IN  IF subtype = "started"
                 THEN LET tool_input == Get(tool_call_data[tool_name_raw], "args", EmptyDict)
                          summary == _create_tool_summary(tool_name, tool_input)
                      IN  <<Message("assistant", "chat", summary,
                                    [cli_type |-> "cursor",
                                     event_type |-> "tool_call_started",
                                     tool_name |-> tool_name,
                                     tool_input |-> tool_input,
                                     original_event |-> event])>>
                 ELSE IF subtype = "completed"
                 THEN LET result == Get(tool_call_data[tool_name_raw], "result", EmptyDict)
                          content == IF "success" \in DOMAIN result
                                     THEN JsonDumps(result["success"])
                                     ELSE IF "error" \in DOMAIN result
                                     THEN JsonDumps(result["error"])
                                     ELSE ""
                      IN  <<Message("system", "tool_result", content,
                                    [cli_type |-> "cursor", original_format |-> event,
                                     tool_name |-> tool_name,
                                     hidden_from_ui |-> TRUE])>>
                 ELSE NoMessage
    ELSE IF event_type = "result"
    THEN LET duration == Get(event, "duration_ms", 0)
             result_text == Get(event, "result", "")
         IN  IF result_text # ""
             THEN <<Message("system", "system",
                            "Execution completed in " \o DurationStr(duration)
                                \o "ms. Final result: " \o result_text,
                            [cli_type |-> "cursor", event_type |-> "result",
                             duration_ms |-> duration, original_event |-> event,
                             hidden_from_ui |-> TRUE])>>
             ELSE NoMessage
    ELSE NoMessage

\* variant: the flush carries the role of the event that caused it
AggregatedMessage_AsUser(buffer) ==
    Message("user", "chat", buffer,
            [cli_type |-> "cursor", event_type |-> "user"])

\* the aggregated assistant text, lines 1171-1180 and 1224-1233
AggregatedMessage(buffer) ==
    Message("assistant", "chat", buffer,
            [cli_type |-> "cursor", event_type |-> "assistant_aggregated"])

\* variant: a rejected line is reported as an error
ParseErrorMessage_AsError(line_str) ==
    Message("assistant", "error", "JSON decode error",
            [cli_type |-> "cursor", error |-> "parse_error"])

\* the raw output of a line json.loads rejected, lines 1210-1219
ParseErrorMessage(line_str) ==
    Message("assistant", "chat", line_str,
            [cli_type |-> "cursor", raw_output |-> line_str,
             parse_error |-> "JSONDecodeError"])

\* except FileNotFoundError, lines 1241-1252
CliNotFoundMessage ==
    Message("assistant", "error", "Cursor Agent CLI not found",
            [error |-> "cli_not_found", cli_type |-> "cursor"])

\* except Exception, lines 1253-1264
ExecutionFailedMessage ==
    Message("assistant", "error", "Cursor Agent execution failed",
            [error |-> "execution_failed", cli_type |-> "cursor",
             exception |-> "AttributeError"])

\* the first truthy candidate of lines 1144-1160
PotentialSessionId(event) ==
    LET top == Or(Get(event, "sessionId", None),
               Or(Get(event, "chatId", None),
               Or(Get(event, "session_id", None),
               Or(Get(event, "chat_id", None),
               Or(Get(event, "threadId", None),
                  Get(event, "thread_id", None))))))
        message == Get(event, "message", EmptyDict)
        nested == Or(Get(message, "sessionId", None),
                  Or(Get(message, "chatId", None),
                  Or(Get(message, "session_id", None),
                     Get(message, "chat_id", None))))
    IN  IF ~Truthy(top) /\ "message" \in DOMAIN event THEN nested ELSE top

(***************************************************************************)
(* The Claude SDK stream: the typed objects client.receive_messages()      *)
(* delivers.                                                               *)
(***************************************************************************)
TextBlock(text) == [block |-> "TextBlock", text |-> text]

ToolUseBlock(id, name, input) ==
    [block |-> "ToolUseBlock", id |-> id, name |-> name, input |-> input]

ToolResultBlock == [block |-> "ToolResultBlock"]

SdkSystemMessages ==
    {[kind |-> "SystemMessage", session_id |-> s] : s \in SessionIds \cup {None}}

SdkAssistantMessages ==
    {[kind |-> "AssistantMessage", content |-> c] :
        c \in {<<TextBlock("a")>>,
               <<ToolUseBlock("t1", "Write", [file_path |-> <<"x">>])>>,
               <<TextBlock("a"), ToolUseBlock("t1", "Write", [file_path |-> <<"x">>]),
                 TextBlock(" ")>>,
               <<ToolResultBlock>>,
               <<TextBlock(" ")>>}}

SdkResultMessages ==
    {[kind |-> "ResultMessage", is_error |-> e, duration_ms |-> 1] : e \in BOOLEAN}

SdkMessages ==
    SdkSystemMessages \cup SdkAssistantMessages \cup SdkResultMessages
    \cup {[kind |-> "UserMessage"], [kind |-> "StreamEvent"]}

\* the SDK objects of the concurrent specification
ConcSdkMessages ==
    {[kind |-> "SystemMessage", session_id |-> "s1"],
     [kind |-> "ResultMessage", is_error |-> FALSE, duration_ms |-> 1]}

\* str.strip() on the texts the blocks above can add up to
Strip(content) ==
    CASE content = " " -> ""
      [] content = "a " -> "a"
      [] OTHER -> content

DefaultClaudeModel == "claude-sonnet-4-20250514"

\* the messages one AssistantMessage makes the adapter yield, lines 688-750
RECURSIVE BlockText(_)
BlockText(blocks) ==
    IF blocks = <<>> THEN ""
    ELSE (IF blocks[1].block = "TextBlock" THEN blocks[1].text ELSE "")
         \o BlockText(Tail(blocks))

RECURSIVE ToolUseMessages(_)
ToolUseMessages(blocks) ==
    IF blocks = <<>> THEN <<>>
    ELSE (IF blocks[1].block = "ToolUseBlock"
          THEN <<Message("assistant", "tool_use",
                         _create_tool_summary(blocks[1].name, blocks[1].input),
                         [cli_type |-> "claude", mode |-> "SDK",
                          tool_name |-> blocks[1].name,
                          tool_input |-> blocks[1].input,
                          tool_id |-> blocks[1].id])>>
          ELSE <<>>)
         \o ToolUseMessages(Tail(blocks))

\* variant: the text is emitted as accumulated, whitespace and all
AssistantYields_NoStrip(message_obj) ==
    LET content == BlockText(message_obj.content)
    IN  ToolUseMessages(message_obj.content)
        \o (IF content # ""
            THEN <<Message("assistant", "chat", content,
                           [cli_type |-> "claude", mode |-> "SDK"])>>
            ELSE <<>>)

AssistantYields(message_obj) ==
    LET content == BlockText(message_obj.content)
    IN  ToolUseMessages(message_obj.content)
        \o (IF content # "" /\ Strip(content) # ""
            THEN <<Message("assistant", "chat", Strip(content),
                           [cli_type |-> "claude", mode |-> "SDK"])>>
            ELSE <<>>)

\* the messages one SDK object makes the adapter yield, lines 660-794
ClaudeYields(message_obj, cli_model) ==
    IF message_obj.kind = "SystemMessage"
    THEN <<Message("system", "system",
                   "Claude Code SDK initialized (Model: " \o cli_model \o ")",
                   [cli_type |-> "claude", mode |-> "SDK",
                    model |-> cli_model,
                    session_id |-> message_obj.session_id,
                    hidden_from_ui |-> TRUE])>>
    ELSE IF message_obj.kind = "AssistantMessage"
    THEN AssistantYields(message_obj)
    ELSE IF message_obj.kind = "UserMessage"
    THEN <<>>
    ELSE IF message_obj.kind = "ResultMessage"
    THEN <<Message("system", "result",
                   "Session completed in " \o DurationStr(message_obj.duration_ms) \o "ms",
                   [cli_type |-> "claude", mode |-> "SDK",
                    duration_ms |-> message_obj.duration_ms,
                    is_error |-> message_obj.is_error,
                    hidden_from_ui |-> TRUE])>>
    ELSE <<>>

(***************************************************************************)
(* Project ids the adapters derive from the working directory.             *)
(***************************************************************************)
\* project_path.split("/")[-1], line 629
ClaudeProjectId(project_path) == project_path[Len(project_path)]

\* the folder before "repo", lines 1066-1075
CursorProjectId(path_parts) ==
    LET n == Len(path_parts)
    IN  IF (\E i \in 1..n : path_parts[i] = "repo") /\ n >= 2
        THEN LET repo_index == CHOOSE i \in 1..n :
                                  /\ path_parts[i] = "repo"
                                  /\ \A j \in 1..(i - 1) : path_parts[j] # "repo"
             IN  IF repo_index > 1 THEN path_parts[repo_index - 1] ELSE path_parts[n]
        ELSE path_parts[n]

(***************************************************************************)
(* BaseCLI.parse_message_data and _extract_content.  The data of a backend *)
(* is JSON of any shape, so here a value carries its Python type: t is     *)
(* "str", "null", "list" or "dict".  What a call gives is a value of the   *)
(* same kind, or t = "raise" with the exception.                           *)
(***************************************************************************)
JStr(x) == [t |-> "str", s |-> x]

JNull == [t |-> "null"]

JList(x) == [t |-> "list", l |-> x]

JDict(x) == [t |-> "dict", d |-> x]

Raise(e) == [t |-> "raise", e |-> e]

JNum(n) == [t |-> "num", n |-> n]

\* str(x)
PyStr(x) ==
    CASE x.t = "str" -> x
      [] x.t = "null" -> JStr("None")
      [] x.t = "list" -> JStr("[...]")
      [] x.t = "dict" -> JStr("{...}")
      [] x.t = "num" -> JStr(ToString(x.n))

\* d.get(key, default) on a dict
JGet(d, key, default) == IF key \in DOMAIN d THEN d[key] ELSE default

\* content += x
Concat(content, x) ==
    IF content.t = "raise" THEN content
    ELSE IF x.t = "raise" THEN x
    ELSE IF x.t # "str" THEN Raise("TypeError")
    ELSE JStr(content.s \o x.s)

\* lines 192-200: what one item of a content list adds
ContentItem(item) ==
    IF item.t # "dict" THEN Raise("AttributeError")
    ELSE IF JGet(item.d, "type", JNull) = JStr("text")
    THEN JGet(item.d, "text", JStr(""))
    ELSE IF JGet(item.d, "type", JNull) = JStr("tool_use")
    THEN JStr(_create_tool_summary(JGet(item.d, "name", JStr("Unknown")).s,
                                   JGet(item.d, "input", JDict(EmptyDict)).d)
              \o "\n")
    ELSE JStr("")

\* lines 210-218: what one part adds
PartItem(part) ==
    IF part.t # "dict" THEN Raise("TypeError")
    ELSE IF "text" \in DOMAIN part.d THEN JGet(part.d, "text", JStr(""))
    ELSE IF "functionCall" \in DOMAIN part.d
    THEN LET func_call == part.d.functionCall
         IN  IF func_call.t # "dict" THEN Raise("AttributeError")
             ELSE JStr(_create_tool_summary(
                           JGet(func_call.d, "name", JStr("Unknown")).s,
                           JGet(func_call.d, "args", JDict(EmptyDict)).d) \o "\n")
    ELSE JStr("")

\* the for loops of lines 191-201 and 209-219
RECURSIVE Accumulate(_, _, _)
Accumulate(items, content, is_parts) ==
    IF items = <<>> \/ content.t = "raise" THEN content
    ELSE Accumulate(Tail(items),
                    Concat(content, IF is_parts THEN PartItem(items[1])
                                    ELSE ContentItem(items[1])),
                    is_parts)

\* lines 222-227: the choices branch; when the first choice has neither key the
\* function runs off its end and returns None
ChoiceContent(choice) ==
    IF choice.t # "dict" THEN Raise("TypeError")
    ELSE IF "message" \in DOMAIN choice.d
    THEN IF choice.d.message.t # "dict" THEN Raise("AttributeError")
         ELSE JGet(choice.d.message.d, "content", JStr(""))
    ELSE IF "text" \in DOMAIN choice.d
    THEN JGet(choice.d, "text", JStr(""))
    ELSE JNull

\* bool(x) of a JSON value
JTruthy(x) ==
    CASE x.t = "str" -> x.s # ""
      [] x.t = "null" -> FALSE
      [] x.t = "list" -> x.l # <<>>
      [] x.t = "dict" -> DOMAIN x.d # {}
      [] x.t = "num" -> x.n # 0

\* BaseCLI._extract_content, lines 185-248
RECURSIVE _extract_content(_)
_extract_content(data) ==
    IF "content" \in DOMAIN data /\ data.content.t = "list"
    THEN Accumulate(data.content.l, JStr(""), FALSE)
    ELSE IF "content" \in DOMAIN data
    THEN PyStr(data.content)
    ELSE IF "parts" \in DOMAIN data
    THEN IF data.parts.t # "list" THEN Raise("TypeError")
         ELSE Accumulate(data.parts.l, JStr(""), TRUE)
    ELSE IF "choices" \in DOMAIN data /\ JTruthy(data.choices)
    THEN IF data.choices.t # "list" THEN Raise("KeyError")
         ELSE ChoiceContent(data.choices.l[1])
    ELSE IF "text" \in DOMAIN data
    THEN PyStr(data.text)
    ELSE IF "message" \in DOMAIN data
    THEN IF data.message.t = "dict" THEN _extract_content(data.message.d)
         ELSE PyStr(data.message)
    ELSE IF "response" \in DOMAIN data
    THEN PyStr(data.response)
    ELSE IF "delta" \in DOMAIN data /\ data.delta.t \notin {"dict", "list", "str"}
    THEN Raise("TypeError")
    ELSE IF "delta" \in DOMAIN data /\ data.delta.t = "dict"
            /\ "content" \in DOMAIN data.delta.d
    THEN PyStr(data.delta.d.content)
    ELSE JStr("{...}")

\* str.lower() on the role strings below
Lower(role) ==
    CASE role \in {"model", "Model", "MODEL"} -> "model"
      [] role \in {"ai", "AI", "Ai"} -> "ai"
      [] role \in {"human", "Human", "HUMAN"} -> "human"
      [] role \in {"bot", "Bot", "BOT"} -> "bot"
      [] role \in {"assistant", "Assistant", "ASSISTANT"} -> "assistant"
      [] role \in {"user", "User", "USER"} -> "user"
      [] role \in {"system", "System", "SYSTEM"} -> "system"
      [] role \in {"tool", "Tool"} -> "tool"
      [] role \in {"", "x"} -> role

\* the role strings a backend may send
RoleStrings ==
    {"model", "Model", "MODEL", "ai", "AI", "Ai", "human", "Human", "HUMAN",
     "bot", "Bot", "BOT", "assistant", "Assistant", "ASSISTANT", "user", "User",
     "USER", "system", "System", "SYSTEM", "tool", "Tool", "", "x"}

\* lines 177-182
role_mapping ==
    [model |-> "assistant", ai |-> "assistant", human |-> "user", bot |-> "assistant"]

\* variant: the role is mapped as it is written
_normalize_role_CaseSensitive(role) == Get(role_mapping, role, role)

\* BaseCLI._normalize_role, lines 175-183
_normalize_role(role) == Get(role_mapping, Lower(role), Lower(role))

\* BaseCLI.parse_message_data, lines 156-173: the Message, or the exception
parse_message_data(data) ==
    LET role == JGet(data, "role", JStr("assistant"))
        content == _extract_content(data)
    IN  IF role.t # "str" THEN Raise("AttributeError")
        ELSE IF content.t = "raise" THEN content
        ELSE [t |-> "Message", role |-> _normalize_role(role.s),
              message_type |-> "chat", content |-> content]

\* the data of backend messages: one shape for every branch, with the fields
\* present, null or missing
ExtractInputs ==
    {[content |-> JList(<<JDict([type |-> JStr("text"), text |-> JStr("a")]),
                          JDict([type |-> JStr("tool_use"), name |-> JStr("Write"),
                                 input |-> JDict([file_path |-> <<"x">>])])>>)],
     [content |-> JList(<<JDict([type |-> JStr("tool_use")])>>)],
     [content |-> JList(<<JDict([type |-> JStr("image")])>>)],
     [content |-> JList(<<>>)],
     [content |-> JList(<<JDict([type |-> JStr("text"), text |-> JNull])>>)],
     [content |-> JStr("hi"), role |-> JStr("model")],
     [content |-> JStr("")],
     [content |-> JNull],
     [parts |-> JList(<<JDict([text |-> JStr("a")]),
                        JDict([functionCall |-> JDict([name |-> JStr("shell")])])>>)],
     [parts |-> JList(<<>>)],
     [choices |-> JList(<<JDict([message |-> JDict([content |-> JStr("a")])])>>)],
     [choices |-> JList(<<JDict([message |-> JDict([content |-> JNull])])>>)],
     [choices |-> JList(<<JDict([message |-> JDict(EmptyDict)])>>)],
     [choices |-> JList(<<JDict([text |-> JStr("a")])>>)],
     [choices |-> JList(<<JDict([finish_reason |-> JStr("stop")])>>)],
     [choices |-> JList(<<>>), text |-> JStr("t")],
     [choices |-> JList(<<>>)],
     [text |-> JStr("t"), role |-> JStr("human")],
     [message |-> JDict([content |-> JStr("a")])],
     [message |-> JDict([choices |-> JList(<<JDict(EmptyDict)>>)])],
     [message |-> JStr("m")],
     [response |-> JStr("r")],
     [delta |-> JDict([content |-> JStr("d")])],
     [delta |-> JDict(EmptyDict)],
     [role |-> JStr("AI")],
     EmptyDict}

(***************************************************************************)
(* The tool renderers on any tool-input map.  The fields of a map that hold *)
(* strings are written as above (str); its fields that hold null, a number *)
(* or a list are written as JSON values (other).  The lists are short: no  *)
(* list has more than 30 items.                                            *)
(***************************************************************************)
ToolInput(str, other) == [str |-> str, other |-> other]

\* the fields whose strings are paths
PathKeys == {"file_path", "path", "file", "directory", "dir", "notebook_path"}

\* a.get(k1) or a.get(k2) or ... : the first truthy value, as a JSON value
Chosen(tool_input, keys) ==
    LET truthy(k) == \/ k \in DOMAIN tool_input.other /\ JTruthy(tool_input.other[k])
                     \/ /\ k \in DOMAIN tool_input.str
                        /\ tool_input.str[k] # (IF k \in PathKeys THEN <<>> ELSE "")
        hit == {i \in 1..Len(keys) : truthy(keys[i])}
        k == keys[CHOOSE i \in hit : \A j \in hit : i <= j]
    IN  IF hit = {} THEN JNull
        ELSE IF k \in DOMAIN tool_input.other THEN tool_input.other[k]
        ELSE JStr(tool_input.str[k])

\* what an f-string makes of the map's truthy values: str(value); a falsy
\* value takes the branch an absent field takes
Formatted(tool_input) ==
    LET keep == {k \in DOMAIN tool_input.other : JTruthy(tool_input.other[k])}
    IN  [k \in DOMAIN tool_input.str \cup keep |->
            IF k \in DOMAIN tool_input.str THEN tool_input.str[k]
            ELSE IF k \in PathKeys THEN <<PyStr(tool_input.other[k]).s>>
            ELSE PyStr(tool_input.other[k]).s]

FileKeys == <<"file_path", "path", "file">>

CommandKeys == <<"command", "cmd", "script">>

\* _create_tool_summary: len(x) and x[:n] raise TypeError on a number,
\* x.split and the in test of line 431 raise on a number and on a list
SummaryRaises(tool_name, tool_input) ==
    LET normalized_name == _normalize_tool_name(tool_name)
        num(keys) == Chosen(tool_input, keys).t = "num"
        nonstr(keys) == Chosen(tool_input, keys).t \in {"num", "list"}
    IN  CASE normalized_name \in {"Edit", "Read", "Write", "MultiEdit"} -> num(FileKeys)
          [] normalized_name = "Bash" -> num(CommandKeys)
          [] normalized_name = "SaveMemory" -> num(<<"fact">>)
          [] normalized_name = "LS" -> num(<<"path", "directory", "dir">>)
          [] normalized_name = "Delete" -> num(<<"path">>)
          [] normalized_name \in {"SemSearch", "WebSearch"} -> num(<<"query">>)
          [] normalized_name = "WebFetch" -> nonstr(<<"url">>)
          [] normalized_name = "Task" -> num(<<"description">>)
          [] normalized_name = "NotebookEdit" -> nonstr(<<"notebook_path">>)
          [] OTHER -> FALSE

\* _get_clean_tool_display: file_path.split, command.split and url.split
\* raise on a number and on a list, query[:50] on a number
DisplayRaises(tool_name, tool_input) ==
    LET normalized_name == _normalize_tool_name(tool_name)
        num(keys) == Chosen(tool_input, keys).t = "num"
        nonstr(keys) == Chosen(tool_input, keys).t \in {"num", "list"}
    IN  CASE normalized_name \in {"Read", "Write", "Edit"} -> nonstr(FileKeys)
          [] normalized_name = "Bash" -> nonstr(CommandKeys)
          [] normalized_name = "WebSearch" -> num(<<"query">>)
          [] normalized_name = "WebFetch" -> nonstr(<<"url">>)
          [] OTHER -> FALSE

\* the tool names of the synonym table, the unified names, and others
ToolNames ==
    DOMAIN tool_mapping
    \cup {"Read", "Write", "Edit", "Delete", "Bash", "Grep", "Glob", "LS",
          "SemSearch", "WebSearch", "WebFetch", "SaveMemory", "TodoWrite",
          "MultiEdit", "Task", "ExitPlanMode", "NotebookEdit", "mystery_tool", ""}

LongPath == <<"home", "user", "projects", "claudable", "apps", "web", "page.tsx">>

LongCommand == "npm install --save-dev typescript eslint prettier"

StrInputs ==
    {EmptyDict,
     [unrelated |-> "v"],
     [file_path |-> <<"x">>],
     [file_path |-> LongPath],
     [path |-> <<"src", "a.py">>],
     [path |-> LongPath],
     [file |-> <<"f">>],
     [file_path |-> <<>>, path |-> <<"p">>],
     [command |-> "ls -l"],
     [cmd |-> "   "],
     [script |-> LongCommand],
     [command |-> ""],
     [query |-> "q"],
     [pattern |-> "*.py", path |-> <<"src">>],
     [search |-> "TODO"],
     [name |-> "a.py"],
     [globPattern |-> "*.ts"],
     [url |-> "https://a.b/c"],
     [url |-> "a.b/c", prompt |-> "summarise"],
     [url |-> "/c"],
     [description |-> "d", subagent_type |-> "general"],
     [description |-> "d"],
     [fact |-> "f"],
     [notebook_path |-> <<"nb", "a.ipynb">>]}

OtherInputs ==
    {[file_path |-> JNull],
     [path |-> JNum(5)],
     [file_path |-> JNum(0)],
     [command |-> JList(<<JStr("ls"), JStr("-l")>>)],
     [command |-> JNum(5)],
     [query |-> JNum(5)],
     [query |-> JNull],
     [url |-> JNum(5)],
     [url |-> JList(<<JStr("a")>>)],
     [pattern |-> JNum(5)],
     [description |-> JNum(5)],
     [fact |-> JList(<<>>)],
     [notebook_path |-> JList(<<JStr("a")>>)]}

ToolInputMaps ==
    {ToolInput(str, EmptyDict) : str \in StrInputs}
    \cup {ToolInput(EmptyDict, other) : other \in OtherInputs}
    \cup {ToolInput([file |-> <<"f">>], [file_path |-> JNull]),
          ToolInput([path |-> <<"p">>], [file_path |-> JNum(5)]),
          ToolInput([cmd |-> "ls"], [command |-> JNull]),
          ToolInput([query |-> "q"], [path |-> JNum(5)])}

(***************************************************************************)
(* Model names.                                                            *)
(***************************************************************************)
\* MODEL_MAPPING, lines 49-77
MODEL_MAPPING ==
    [claude |->
        ("opus-4.1" :> "claude-opus-4-1-20250805"
         @@ "sonnet-4" :> "claude-sonnet-4-20250514"
         @@ "opus-4" :> "claude-opus-4-20250514"
         @@ "haiku-3.5" :> "claude-3-5-haiku-20241022"
         @@ "claude-sonnet-4" :> "claude-sonnet-4-20250514"
         @@ "claude-opus-4.1" :> "claude-opus-4-1-20250805"
         @@ "claude-opus-4" :> "claude-opus-4-20250514"
         @@ "claude-haiku-3.5" :> "claude-3-5-haiku-20241022"
         @@ "claude-opus-4-1-20250805" :> "claude-opus-4-1-20250805"
         @@ "claude-sonnet-4-20250514" :> "claude-sonnet-4-20250514"
         @@ "claude-opus-4-20250514" :> "claude-opus-4-20250514"
         @@ "claude-3-5-haiku-20241022" :> "claude-3-5-haiku-20241022"),
     cursor |->
        ("gpt-5" :> "gpt-5"
         @@ "sonnet-4" :> "sonnet-4"
         @@ "opus-4.1" :> "opus-4.1"
         @@ "sonnet-4-thinking" :> "sonnet-4-thinking"
         @@ "claude-sonnet-4" :> "sonnet-4"
         @@ "claude-opus-4.1" :> "opus-4.1"
         @@ "claude-sonnet-4-20250514" :> "sonnet-4"
         @@ "claude-opus-4-1-20250805" :> "opus-4.1")]

\* cli_models.values()
Values(d) == {d[k] : k \in DOMAIN d}

\* variant: the table is not consulted
_get_cli_model_name_AsIs(cli_type, model) ==
    IF ~Truthy(model) THEN None ELSE model

\* BaseCLI._get_cli_model_name, lines 91-117
_get_cli_model_name(cli_type, model) ==
    IF ~Truthy(model) THEN None
    ELSE LET cli_models == MODEL_MAPPING[cli_type]
         IN  IF model \in DOMAIN cli_models THEN cli_models[model]
             ELSE IF model \in Values(cli_models) THEN model
             ELSE model

\* lines 113-115: the two ui.warning calls of the fallback
ModelWarning(cli_type, model) ==
    /\ Truthy(model)
    /\ model \notin DOMAIN MODEL_MAPPING[cli_type]
    /\ model \notin Values(MODEL_MAPPING[cli_type])

\* the model arguments: every name of the tables, two names of no table, "" and
\* None
ModelArgs ==
    UNION {DOMAIN MODEL_MAPPING[c] \cup Values(MODEL_MAPPING[c]) : c \in {"claude", "cursor"}}
    \cup {"gpt-4o", "Sonnet-4", "", None}


(***************************************************************************)
(* State.                                                                  *)
(***************************************************************************)
VARIABLES
    pc,         \* where each task stands
    req,        \* the request of each task: project_id, cli_type
    runs,       \* requests each task has started
    session,    \* the ChatSession row of each task: its status attribute and the stored one
    cur,        \* locals of CursorAgentCLI.execute_with_streaming
    cla,        \* locals and session_mapping of each task's ClaudeCodeCLI
    chan,       \* messages the adapter has yielded and the engine not yet taken
    orc,        \* locals of UnifiedCLIManager._execute_with_cli
    result,     \* what execute_instruction returned
    cwd,        \* the working directory of the API process
    active_cursor_session_id,  \* Project.active_cursor_session_id, per project
    db_messages,  \* committed Message rows of each task's chat session
    db_pending,   \* rows added to the SQLAlchemy session and not yet committed
    ws,           \* envelopes sent to the WebSocket observers, per task
    hist,         \* history: what each run read and where it stood
    active_claude_session_id,  \* Project.active_claude_session_id, per project
    _session_cache,  \* CLISessionManager._session_cache
    ops,          \* history: the calls made on the CLISessionManager
    ret,          \* what the last get_session_id of the manager returned
    call,         \* the last call of a BaseCLI helper: fn, args, out
    env,          \* os.environ of the API process: CURSOR_MODEL
    gen           \* a call of claude_act.generate_diff_with_logging: its locals

\* the ChatSession of a task: status is the attribute of the object in memory,
\* stored the value of the last db.commit(); None before the first request
SessionInit == [status |-> None, stored |-> None]

\* what a CLISessionManager reads and writes besides active_cursor_session_id
session_vars == <<active_claude_session_id, _session_cache, ops, ret>>

vars == <<pc, req, runs, session, cur, cla, chan, orc, result, cwd,
          active_cursor_session_id, db_messages, db_pending, ws, hist,
          active_claude_session_id, _session_cache, ops, ret, call, env, gen>>

\* what no step of a run touches
other_vars == <<session_vars, call, env, gen>>

\* generate_diff_with_logging before it is called; lines 183-186 for the locals
GenInit ==
    [pc |-> "idle", has_callback |-> FALSE, fail_at |-> 0, handled |-> <<>>,
     pending_tools |-> EmptyDict, log |-> <<>>, response_text |-> "",
     current_session_id |-> None, raised |-> FALSE]

CurInit ==
    [stored_session_id |-> None, active_session_id |-> None,
     cursor_session_id |-> None, assistant_message_buffer |-> "",
     result_received |-> FALSE, cmd_resume |-> None, cmd_model |-> None,
     cmd_flags |-> {},
     spawned |-> FALSE, terminated |-> FALSE, waited |-> FALSE]

ClaInit ==
    [original_cwd |-> HomeDir, resumeSessionId |-> None,
     cli_model |-> None, allowed_tools |-> {}, disallowed_tools |-> {},
     session_mapping |-> EmptyDict, claude_session_id |-> None,
     raised |-> FALSE]

OrcInit ==
    [has_error |-> FALSE, result_success |-> <<>>, has_changes |-> FALSE,
     message_count |-> 0, messages_collected |-> 0, sending |-> <<>>]

HistInit ==
    [lines |-> <<>>, exit |-> "none", status |-> EmptyDict,
     registry_at_start |-> None, at_raise |-> <<>>,
     yielded |-> <<>>, send_failed |-> 0, overlapped |-> FALSE,
     prev |-> [project_id |-> None, cli_type |-> None, model |-> None,
               cli_model |-> None, started |-> FALSE, session_id |-> None]]

\* everything but the environment the process was started in
InitState ==
    /\ pc = [t \in Tasks |-> "idle"]
    /\ req = [t \in Tasks |-> [project_id |-> "p1", cli_type |-> "claude",
                                model |-> None, is_initial_prompt |-> FALSE]]
    /\ runs = [t \in Tasks |-> 0]
    /\ session = [t \in Tasks |-> SessionInit]
    /\ cur = [t \in Tasks |-> CurInit]
    /\ cla = [t \in Tasks |-> ClaInit]
    /\ chan = [t \in Tasks |-> <<>>]
    /\ orc = [t \in Tasks |-> OrcInit]
    /\ result = [t \in Tasks |-> EmptyDict]
    /\ cwd = HomeDir
    /\ gen = GenInit
    /\ active_cursor_session_id = [p \in Projects |-> None]
    /\ db_messages = [t \in Tasks |-> <<>>]
    /\ db_pending = [t \in Tasks |-> <<>>]
    /\ ws = [t \in Tasks |-> <<>>]
    /\ hist = [t \in Tasks |-> HistInit]
    /\ active_claude_session_id = [p \in Projects |-> None]
    /\ _session_cache = EmptyDict
    /\ ops = <<>>
    /\ ret = None
    /\ call = [fn |-> "none"]

\* CURSOR_MODEL is not set
Init == InitState /\ env = [CURSOR_MODEL |-> None]

\* CURSOR_MODEL is set or not
InitModel == InitState /\ env \in {[CURSOR_MODEL |-> m] : m \in {None, "gpt-5"}}

\* the generator is suspended at a yield until the engine is done with the message
ChanClear(t) == chan[t] = <<>> /\ orc[t].sending = <<>>

\* uuid4 ids: the n-th message a run yields gets id n
RECURSIVE Stamp(_, _)
Stamp(msgs, n) ==
    IF msgs = <<>> THEN <<>>
    ELSE <<[id |-> n + 1] @@ msgs[1]>> \o Stamp(Tail(msgs), n + 1)

Yield(t, msgs) == Stamp(msgs, Len(db_messages[t]))

(***************************************************************************)
(* The task driver, execute_act_task, up to the engine call.               *)
(***************************************************************************)
\* the request of a project with no selected model, not the initial prompt
DefaultArgs == {[model |-> None, is_initial_prompt |-> FALSE]}

\* history: task u is between its request and the return of execute_instruction,
\* for project p and backend c
InFlightOn(u, p, c) ==
    /\ pc[u] \notin {"idle", "returned", "commit", "done", "raised"}
    /\ req[u].project_id = p /\ req[u].cli_type = c

\* act.py 271-319: a new request; a new UnifiedCLIManager with new adapters
ActStart(t, p, c, a, R) ==
    /\ pc[t] \in {"idle", "done", "raised"}
    /\ runs[t] < R
    /\ pc' = [pc EXCEPT ![t] = "check"]
    /\ req' = [req EXCEPT ![t] = [project_id |-> p, cli_type |-> c, model |-> a.model,
                                  is_initial_prompt |-> a.is_initial_prompt]]
    /\ runs' = [runs EXCEPT ![t] = @ + 1]
    /\ session' = [session EXCEPT ![t] = [status |-> "running", stored |-> "running"]]
    /\ cur' = [cur EXCEPT ![t] = CurInit]
    /\ cla' = [cla EXCEPT ![t] = ClaInit]
    /\ chan' = [chan EXCEPT ![t] = <<>>]
    /\ orc' = [orc EXCEPT ![t] = OrcInit]
    /\ result' = [result EXCEPT ![t] = EmptyDict]
    /\ db_messages' = [db_messages EXCEPT ![t] = <<>>]
    /\ db_pending' = [db_pending EXCEPT ![t] = <<>>]
    /\ ws' = [ws EXCEPT ![t] = <<[type |-> "act_start"]>>]
    /\ hist' = [u \in Tasks |->
          IF u = t
          THEN [HistInit EXCEPT
                  !.registry_at_start = active_cursor_session_id[p],
                  !.overlapped = \E v \in Tasks \ {t} : InFlightOn(v, p, c),
                  !.prev = IF runs[t] = 0 THEN @
                           ELSE [project_id |-> req[t].project_id,
                                 cli_type |-> req[t].cli_type,
                                 model |-> req[t].model,
                                 cli_model |-> IF req[t].cli_type = "cursor"
                                               THEN cur[t].cmd_model
                                               ELSE cla[t].cli_model,
                                 started |-> /\ Get(hist[t].status, "available", FALSE)
                                             /\ Get(hist[t].status, "configured", FALSE),
                                 session_id |-> IF req[t].cli_type = "cursor"
                                                THEN cur[t].cursor_session_id
                                                ELSE cla[t].claude_session_id]]
          ELSE [hist[u] EXCEPT !.overlapped = @ \/ InFlightOn(u, p, c)]]
    /\ UNCHANGED <<cwd, active_cursor_session_id>>
    /\ UNCHANGED other_vars

\* what check_availability can return, lines 479-518 and 836-874
AvailabilityResults(c) ==
    {[available |-> TRUE, configured |-> TRUE],
     [available |-> FALSE, configured |-> FALSE,
      error |-> c \o " CLI not installed or not working."]}

\* variant: the availability status is not looked at
IsUsable_Unchecked(status) == TRUE

\* status.get("available") and status.get("configured"), line 1350
IsUsable(status) ==
    Get(status, "available", FALSE) /\ Get(status, "configured", FALSE)

\* execute_instruction 1345-1367, up to the call of _execute_with_cli
CheckAvailability(t, status) ==
    /\ pc[t] = "check"
    /\ hist' = [hist EXCEPT ![t].status = status]
    /\ IF IsUsable(status)
       THEN /\ pc' = [pc EXCEPT ![t] = "execute"]
            /\ UNCHANGED result
       ELSE /\ pc' = [pc EXCEPT ![t] = "returned"]
            /\ result' = [result EXCEPT ![t] =
                  [success |-> FALSE,
                   error |-> Get(status, "error", "CLI not available"),
                   cli_attempted |-> req[t].cli_type]]
    /\ UNCHANGED <<req, runs, session, cur, cla, chan, orc, cwd, active_cursor_session_id,
                   db_messages, db_pending, ws>>
    /\ UNCHANGED other_vars

(***************************************************************************)
(* CursorAgentCLI.                                                         *)
(***************************************************************************)
\* get_session_id 1266-1279: the project row first, then the adapter's own
\* _session_store, which a fresh adapter holds empty
get_session_id(project_id) ==
    IF project_id \in Projects /\ Truthy(active_cursor_session_id[project_id])
    THEN active_cursor_session_id[project_id]
    ELSE None

\* variant: an id already stored is kept
set_session_id_KeepFirst(project_id, session_id) ==
    IF Truthy(active_cursor_session_id[project_id])
    THEN active_cursor_session_id
    ELSE [active_cursor_session_id EXCEPT ![project_id] = session_id]

\* set_session_id 1281-1292: the driver's project exists, so the row is written
set_session_id(project_id, session_id) ==
    [active_cursor_session_id EXCEPT ![project_id] = session_id]

\* line 1097: self._get_cli_model_name(model) or os.getenv("CURSOR_MODEL")
CursorCliModel(t) ==
    Or(_get_cli_model_name("cursor", req[t].model), env.CURSOR_MODEL)

\* variant: only an id read from the registry is resumed
ActiveSessionId_StoredOnly(stored_session_id, session_id) == stored_session_id

\* line 1087: stored_session_id or session_id
ActiveSessionId(stored_session_id, session_id) == Or(stored_session_id, session_id)

\* execute_with_streaming 1062-1116: the command line and the spawn
CursorStart(t, spawn_ok) ==
    /\ pc[t] = "execute"
    /\ req[t].cli_type = "cursor"
    /\ LET project_id == CursorProjectId(RepoPath(req[t].project_id))
           stored_session_id == get_session_id(project_id)
           active_session_id == ActiveSessionId(stored_session_id, ChatSessionId)
       IN  /\ cur' = [cur EXCEPT ![t] =
                  [CurInit EXCEPT !.stored_session_id = stored_session_id,
                                  !.active_session_id = active_session_id,
                                  !.cmd_resume = IF Truthy(active_session_id)
                                                 THEN active_session_id ELSE None,
                                  !.cmd_model = IF Truthy(CursorCliModel(t))
                                                THEN CursorCliModel(t) ELSE None,
                                  !.cmd_flags =
                                      {"--force", "-p", "--output-format"}
                                      \cup (IF Truthy(active_session_id)
                                            THEN {"--resume"} ELSE {})
                                      \cup (IF Truthy(CursorCliModel(t))
                                            THEN {"-m"} ELSE {}),
                                  !.spawned = spawn_ok]]
           /\ IF spawn_ok
              THEN /\ pc' = [pc EXCEPT ![t] = "reading"]
                   /\ UNCHANGED <<chan, hist>>
              ELSE /\ pc' = [pc EXCEPT ![t] = "stream_end"]
                   /\ chan' = [chan EXCEPT ![t] = Yield(t, <<CliNotFoundMessage>>)]
                   /\ hist' = [hist EXCEPT
                         ![t].exit = "not_found",
                         ![t].yielded = @ \o Yield(t, <<CliNotFoundMessage>>)]
    /\ UNCHANGED <<req, runs, session, cla, orc, result, cwd, active_cursor_session_id,
                   db_messages, db_pending, ws>>
    /\ UNCHANGED other_vars

\* lines 1129-1139: the flag the break at 1195 tests
ResultReceived(event_type, cursor_session_id, result_received) ==
    IF event_type = "result" /\ ~Truthy(cursor_session_id)
    THEN TRUE
    ELSE result_received

\* lines 1129-1167: the session id held after the event
SessionIdAfter(event, cursor_session_id, active_session_id) ==
    LET event_type == Get(event, "type", None)
        session_id_from_result == Get(event, "session_id", None)
        after_result ==
            IF event_type = "result" /\ ~Truthy(cursor_session_id)
               /\ Truthy(session_id_from_result)
            THEN session_id_from_result
            ELSE cursor_session_id
        potential_session_id == PotentialSessionId(event)
    IN  IF ~Truthy(after_result) /\ Truthy(potential_session_id)
           /\ potential_session_id # active_session_id
        THEN potential_session_id
        ELSE after_result

\* lines 1118-1220: one iteration of the read loop, up to its last yield
CursorReadLine(t, line, N) ==
    /\ pc[t] = "reading"
    /\ ChanClear(t)
    /\ Len(hist[t].lines) < N
    /\ LET c == cur[t]
           event == line.event
           event_type == Get(event, "type", None)
           project_id == CursorProjectId(RepoPath(req[t].project_id))
           sid == SessionIdAfter(event, c.cursor_session_id, c.active_session_id)
           received == ResultReceived(event_type, c.cursor_session_id, c.result_received)
           flush == event_type # "assistant" /\ c.assistant_message_buffer # ""
           message == _handle_cursor_stream_json(event)
           buffered == /\ message # NoMessage
                       /\ message[1].role = "assistant"
                       /\ message[1].message_type = "chat"
           flushed == IF flush THEN "" ELSE c.assistant_message_buffer
           out == (IF flush THEN <<AggregatedMessage(c.assistant_message_buffer)>>
                   ELSE <<>>)
                  \o (IF buffered THEN <<>> ELSE message)
       IN  IF line.loads = "blank"
           THEN /\ hist' = [hist EXCEPT ![t].lines = Append(@, line)]
                /\ UNCHANGED <<pc, cur, chan, active_cursor_session_id>>
           ELSE IF line.loads = "JSONDecodeError"
           THEN /\ chan' = [chan EXCEPT ![t] = Yield(t, <<ParseErrorMessage(line.line_str)>>)]
                /\ hist' = [hist EXCEPT
                      ![t].lines = Append(@, line),
                      ![t].yielded = @ \o Yield(t, <<ParseErrorMessage(line.line_str)>>)]
                /\ UNCHANGED <<pc, cur, active_cursor_session_id>>
           ELSE IF line.loads = "value"
           THEN \* event.get raises AttributeError: except Exception, 1253
                /\ chan' = [chan EXCEPT ![t] = Yield(t, <<ExecutionFailedMessage>>)]
                /\ pc' = [pc EXCEPT ![t] = "stream_end"]
                /\ hist' = [hist EXCEPT
                      ![t].lines = Append(@, line),
                      ![t].exit = "exception",
                      ![t].yielded = @ \o Yield(t, <<ExecutionFailedMessage>>)]
                /\ UNCHANGED <<cur, active_cursor_session_id>>
           ELSE /\ active_cursor_session_id' =
                      IF sid # c.cursor_session_id
                      THEN set_session_id(project_id, sid)
                      ELSE active_cursor_session_id
                /\ cur' = [cur EXCEPT ![t].cursor_session_id = sid,
                                      ![t].result_received = received,
                                      ![t].assistant_message_buffer =
                                          IF buffered THEN flushed \o message[1].content
                                          ELSE flushed]
                /\ chan' = [chan EXCEPT ![t] = Yield(t, out)]
                /\ pc' = [pc EXCEPT ![t] = IF received THEN "terminate" ELSE "reading"]
                /\ hist' = [hist EXCEPT ![t].lines = Append(@, line),
                                        ![t].yielded = @ \o Yield(t, out)]
    /\ UNCHANGED <<req, runs, session, cla, orc, result, cwd, db_messages, db_pending, ws>>
    /\ UNCHANGED other_vars

\* lines 1195-1202: process.terminate() and break
CursorTerminate(t) ==
    /\ pc[t] = "terminate"
    /\ ChanClear(t)
    /\ cur' = [cur EXCEPT ![t].terminated = TRUE]
    /\ pc' = [pc EXCEPT ![t] = "after_loop"]
    /\ hist' = [hist EXCEPT ![t].exit = "result"]
    /\ UNCHANGED <<req, runs, session, cla, chan, orc, result, cwd, active_cursor_session_id,
                   db_messages, db_pending, ws>>
    /\ UNCHANGED other_vars

\* line 1118: stdout is closed, the loop ends
CursorEndOfStdout(t) ==
    /\ pc[t] = "reading"
    /\ ChanClear(t)
    /\ pc' = [pc EXCEPT ![t] = "after_loop"]
    /\ hist' = [hist EXCEPT ![t].exit = "eof"]
    /\ UNCHANGED <<req, runs, session, cur, cla, chan, orc, result, cwd,
                   active_cursor_session_id, db_messages, db_pending, ws>>
    /\ UNCHANGED other_vars

\* lines 1222-1233: the last flush
CursorFlush(t) ==
    /\ pc[t] = "after_loop"
    /\ LET out == IF cur[t].assistant_message_buffer # ""
                  THEN Yield(t, <<AggregatedMessage(cur[t].assistant_message_buffer)>>)
                  ELSE <<>>
       IN  /\ chan' = [chan EXCEPT ![t] = out]
           /\ hist' = [hist EXCEPT ![t].yielded = @ \o out]
    /\ pc' = [pc EXCEPT ![t] = "wait"]
    /\ UNCHANGED <<req, runs, session, cur, cla, orc, result, cwd, active_cursor_session_id,
                   db_messages, db_pending, ws>>
    /\ UNCHANGED other_vars

\* line 1235: await process.wait()
CursorWait(t) ==
    /\ pc[t] = "wait"
    /\ ChanClear(t)
    /\ cur' = [cur EXCEPT ![t].waited = TRUE]
    /\ pc' = [pc EXCEPT ![t] = "stream_end"]
    /\ UNCHANGED <<req, runs, session, cla, chan, orc, result, cwd, active_cursor_session_id,
                   db_messages, db_pending, ws, hist>>
    /\ UNCHANGED other_vars

(***************************************************************************)
(* ClaudeCodeCLI.                                                          *)
(***************************************************************************)
\* lines 581-584 and 602-605
BaseTools ==
    {"Read", "Write", "Edit", "MultiEdit", "Bash", "Glob", "Grep", "LS",
     "WebFetch", "WebSearch"}

\* variant: a run that names no model takes the model of the run before it
ClaudeCliModel_Sticky(t) ==
    Or(_get_cli_model_name("claude", req[t].model),
       Or(hist[t].prev.cli_model, DefaultClaudeModel))

\* line 551: self._get_cli_model_name(model) or "claude-sonnet-4-20250514"
ClaudeCliModel(t) ==
    Or(_get_cli_model_name("claude", req[t].model), DefaultClaudeModel)

\* lines 550-636: the options, chdir into the project, look the session up
ClaudeStart(t) ==
    /\ pc[t] = "execute"
    /\ req[t].cli_type = "claude"
    /\ LET project_path == RepoPath(req[t].project_id)
           project_id == ClaudeProjectId(project_path)
           existing_session_id == Get(cla[t].session_mapping, project_id, None)
       IN  /\ cla' = [cla EXCEPT ![t].original_cwd = cwd,
                                 ![t].cli_model = ClaudeCliModel(t),
                                 ![t].allowed_tools =
                                     IF req[t].is_initial_prompt THEN BaseTools
                                     ELSE BaseTools \cup {"TodoWrite"},
                                 ![t].disallowed_tools =
                                     IF req[t].is_initial_prompt THEN {"TodoWrite"}
                                     ELSE {},
                                 ![t].resumeSessionId =
                                     IF Truthy(existing_session_id)
                                     THEN existing_session_id ELSE None]
           /\ cwd' = project_path
    /\ pc' = [pc EXCEPT ![t] = "claude_stream"]
    /\ UNCHANGED <<req, runs, session, cur, chan, orc, result, active_cursor_session_id,
                   db_messages, db_pending, ws, hist>>
    /\ UNCHANGED other_vars

\* variant: no break after the result message
ClaudeReceive_NoBreak(t, message_obj, N) ==
    /\ pc[t] = "claude_stream"
    /\ ChanClear(t)
    /\ Len(hist[t].lines) < N
    /\ LET project_id == ClaudeProjectId(RepoPath(req[t].project_id))
           stores == /\ message_obj.kind = "SystemMessage"
                     /\ Truthy(message_obj.session_id)
       IN  cla' = [cla EXCEPT
                 ![t].claude_session_id =
                     IF stores THEN message_obj.session_id ELSE @,
                 ![t].session_mapping =
                     IF stores THEN (project_id :> message_obj.session_id) @@ @ ELSE @]
    /\ chan' = [chan EXCEPT ![t] = Yield(t, ClaudeYields(message_obj, cla[t].cli_model))]
    /\ pc' = [pc EXCEPT ![t] = "claude_stream"]
    /\ hist' = [hist EXCEPT ![t].lines = Append(@, message_obj),
                            ![t].exit = IF message_obj.kind = "ResultMessage"
                                        THEN "result" ELSE @,
                            ![t].yielded = @ \o Yield(t, ClaudeYields(message_obj, cla[t].cli_model))]
    /\ UNCHANGED <<req, runs, session, cur, orc, result, cwd, active_cursor_session_id,
                   db_messages, db_pending, ws>>
    /\ UNCHANGED other_vars

\* lines 645-794: one object of client.receive_messages()
ClaudeReceive(t, message_obj, N) ==
    /\ pc[t] = "claude_stream"
    /\ ChanClear(t)
    /\ Len(hist[t].lines) < N
    /\ LET project_id == ClaudeProjectId(RepoPath(req[t].project_id))
           stores == /\ message_obj.kind = "SystemMessage"
                     /\ Truthy(message_obj.session_id)
       IN  cla' = [cla EXCEPT
                 ![t].claude_session_id =
                     IF stores THEN message_obj.session_id ELSE @,
                 ![t].session_mapping =
                     IF stores THEN (project_id :> message_obj.session_id) @@ @ ELSE @]
    /\ chan' = [chan EXCEPT ![t] = Yield(t, ClaudeYields(message_obj, cla[t].cli_model))]
    /\ pc' = [pc EXCEPT ![t] =
          IF message_obj.kind = "ResultMessage" THEN "claude_exit" ELSE "claude_stream"]
    /\ hist' = [hist EXCEPT ![t].lines = Append(@, message_obj),
                            ![t].exit = IF message_obj.kind = "ResultMessage"
                                        THEN "result" ELSE @,
                            ![t].yielded = @ \o Yield(t, ClaudeYields(message_obj, cla[t].cli_model))]
    /\ UNCHANGED <<req, runs, session, cur, orc, result, cwd, active_cursor_session_id,
                   db_messages, db_pending, ws>>
    /\ UNCHANGED other_vars

\* the stream ends by itself
ClaudeEndOfStream(t) ==
    /\ pc[t] = "claude_stream"
    /\ ChanClear(t)
    /\ pc' = [pc EXCEPT ![t] = "claude_exit"]
    /\ hist' = [hist EXCEPT ![t].exit = "eof"]
    /\ UNCHANGED <<req, runs, session, cur, cla, chan, orc, result, cwd,
                   active_cursor_session_id, db_messages, db_pending, ws>>
    /\ UNCHANGED other_vars

\* the SDK raises while the stream is consumed
ClaudeRaise(t) ==
    /\ pc[t] = "claude_stream"
    /\ ChanClear(t)
    /\ cla' = [cla EXCEPT ![t].raised = TRUE]
    /\ pc' = [pc EXCEPT ![t] = "claude_exit"]
    /\ hist' = [hist EXCEPT ![t].exit = "exception",
                            ![t].at_raise = db_messages[t]]
    /\ UNCHANGED <<req, runs, session, cur, chan, orc, result, cwd,
                   active_cursor_session_id, db_messages, db_pending, ws>>
    /\ UNCHANGED other_vars

\* variant: the exception is swallowed and the run reported as a success
ExecuteInstructionExcept_Swallow(cli_type, e) ==
    [success |-> TRUE, error |-> None, cli_attempted |-> cli_type]

\* execute_instruction 1355-1361: except Exception
ExecuteInstructionExcept(cli_type, e) ==
    [success |-> FALSE, error |-> e, cli_attempted |-> cli_type]

\* lines 796-804, after the client is closed: finally os.chdir(original_cwd);
\* an exception is raised again and reaches execute_instruction
ClaudeFinally(t) ==
    /\ pc[t] = "claude_exit"
    /\ ChanClear(t)
    /\ cwd' = cla[t].original_cwd
    /\ IF cla[t].raised
       THEN /\ pc' = [pc EXCEPT ![t] = "returned"]
            /\ result' = [result EXCEPT ![t] =
                  ExecuteInstructionExcept(req[t].cli_type, "SDK error")]
       ELSE /\ pc' = [pc EXCEPT ![t] = "stream_end"]
            /\ UNCHANGED result
    /\ UNCHANGED <<req, runs, session, cur, cla, chan, orc, active_cursor_session_id,
                   db_messages, db_pending, ws, hist>>
    /\ UNCHANGED other_vars

(***************************************************************************)
(* UnifiedCLIManager._execute_with_cli.                                    *)
(***************************************************************************)
\* lines 1418-1449: the terminal signal a message carries, <<>> when none
ResultSignal(message, result_success) ==
    LET metadata_json == message.metadata_json
        event_type == Get(metadata_json, "event_type", None)
        original_event == Get(metadata_json, "original_event", EmptyDict)
        is_error == Get(original_event, "is_error", FALSE)
        subtype == Get(original_event, "subtype", "")
    IN  IF event_type = "result" \/ Get(original_event, "type", None) = "result"
        THEN IF is_error \/ subtype = "error" THEN <<FALSE>>
             ELSE IF subtype = "success" THEN <<TRUE>>
             ELSE IF ~is_error THEN <<TRUE>>
             ELSE result_success
        ELSE result_success

\* lines 1413-1414 and 1436-1437
HasErrorAfter(message, has_error) ==
    LET original_event == Get(message.metadata_json, "original_event", EmptyDict)
        is_result == \/ Get(message.metadata_json, "event_type", None) = "result"
                     \/ Get(original_event, "type", None) = "result"
    IN  \/ has_error
        \/ message.message_type = "error"
        \/ /\ is_result
           /\ \/ Get(original_event, "is_error", FALSE)
              \/ Get(original_event, "subtype", "") = "error"

\* variant: the row is added to the SQLAlchemy session and not committed
OrchPersist_NoCommit(t) ==
    /\ chan[t] # <<>>
    /\ orc[t].sending = <<>>
    /\ LET message == Head(chan[t])
       IN  /\ orc' = [orc EXCEPT
                 ![t].message_count = @ + 1,
                 ![t].has_error = HasErrorAfter(message, @),
                 ![t].result_success = ResultSignal(message, @),
                 ![t].messages_collected = @ + 1,
                 ![t].sending = <<message>>]
           /\ db_pending' = [db_pending EXCEPT ![t] = Append(@, message)]
    /\ chan' = [chan EXCEPT ![t] = Tail(@)]
    /\ UNCHANGED <<pc, req, runs, session, cur, cla, result, cwd, active_cursor_session_id,
                   db_messages, ws, hist>>
    /\ UNCHANGED other_vars

\* variant: a hidden message is neither stored nor counted
OrchPersist_SkipHidden(t) ==
    /\ chan[t] # <<>>
    /\ orc[t].sending = <<>>
    /\ LET message == Head(chan[t])
       IN  /\ orc' = [orc EXCEPT
                 ![t].message_count = @ + 1,
                 ![t].has_error = HasErrorAfter(message, @),
                 ![t].result_success = ResultSignal(message, @),
                 ![t].messages_collected =
                     IF Get(message.metadata_json, "hidden_from_ui", FALSE)
                     THEN @ ELSE @ + 1,
                 ![t].sending = <<message>>]
           /\ db_messages' = [db_messages EXCEPT ![t] =
                 IF Get(message.metadata_json, "hidden_from_ui", FALSE)
                 THEN @ \o db_pending[t]
                 ELSE (@ \o db_pending[t]) \o <<message>>]
           /\ db_pending' = [db_pending EXCEPT ![t] = <<>>]
    /\ chan' = [chan EXCEPT ![t] = Tail(@)]
    /\ UNCHANGED <<pc, req, runs, session, cur, cla, result, cwd, active_cursor_session_id,
                   ws, hist>>
    /\ UNCHANGED other_vars

\* lines 1410-1457: the message is taken, inspected, added and committed
OrchPersist(t) ==
    /\ chan[t] # <<>>
    /\ orc[t].sending = <<>>
    /\ LET message == Head(chan[t])
       IN  /\ orc' = [orc EXCEPT
                 ![t].message_count = @ + 1,
                 ![t].has_error = HasErrorAfter(message, @),
                 ![t].result_success = ResultSignal(message, @),
                 ![t].messages_collected = @ + 1,
                 ![t].sending = <<message>>]
           /\ db_messages' = [db_messages EXCEPT ![t] = (@ \o db_pending[t]) \o <<message>>]
           /\ db_pending' = [db_pending EXCEPT ![t] = <<>>]
    /\ chan' = [chan EXCEPT ![t] = Tail(@)]
    /\ UNCHANGED <<pc, req, runs, session, cur, cla, result, cwd, active_cursor_session_id,
                   ws, hist>>
    /\ UNCHANGED other_vars

\* variant: nothing is hidden from the UI
ShouldHide_Never(message) == FALSE

\* line 1460
ShouldHide(message) == Get(message.metadata_json, "hidden_from_ui", FALSE)

\* variant: a message that reports a tool use counts as a change
HasChangesAfter_ToolUse(message, has_changes) ==
    has_changes \/ message.message_type = "tool_use"

\* lines 1484-1486
HasChangesAfter(message, has_changes) ==
    has_changes \/ "changes_made" \in DOMAIN message.metadata_json

\* variant: a send that raises is not caught and ends the run
OrchPublish_Propagate(t, send_ok) ==
    /\ orc[t].sending # <<>>
    /\ LET message == orc[t].sending[1]
       IN  /\ ShouldHide(message) => send_ok
           /\ ws' = [ws EXCEPT ![t] =
                 IF ShouldHide(message) THEN @
                 ELSE Append(@, [type |-> "message", data |-> message])]
           /\ orc' = [orc EXCEPT
                 ![t].sending = <<>>,
                 ![t].has_changes = HasChangesAfter(message, @)]
           /\ hist' = [hist EXCEPT ![t].send_failed =
                 IF @ = 0 /\ ~send_ok
                 THEN Len(hist[t].yielded) - Len(chan[t]) ELSE @]
    /\ IF send_ok
       THEN UNCHANGED <<pc, chan, result>>
       ELSE /\ pc' = [pc EXCEPT ![t] = "returned"]
            /\ chan' = [chan EXCEPT ![t] = <<>>]
            /\ result' = [result EXCEPT ![t] =
                  ExecuteInstructionExcept(req[t].cli_type, "send failed")]
    /\ UNCHANGED <<req, runs, session, cur, cla, cwd, active_cursor_session_id,
                   db_messages, db_pending>>
    /\ UNCHANGED other_vars

\* lines 1459-1486: the WebSocket send and the changes check.  ws holds the
\* envelopes handed to ws_manager.send_message; send_ok = FALSE is a send that
\* raises, which the except of 1481-1482 logs and swallows; hist.send_failed
\* keeps the position in the yield order of the first message whose send raised
OrchPublish(t, send_ok) ==
    /\ orc[t].sending # <<>>
    /\ LET message == orc[t].sending[1]
       IN  /\ ShouldHide(message) => send_ok
           /\ ws' = [ws EXCEPT ![t] =
                 IF ShouldHide(message) THEN @
                 ELSE Append(@, [type |-> "message", data |-> message])]
           /\ orc' = [orc EXCEPT
                 ![t].sending = <<>>,
                 ![t].has_changes = HasChangesAfter(message, @)]
           /\ hist' = [hist EXCEPT ![t].send_failed =
                 IF @ = 0 /\ ~send_ok
                 THEN Len(hist[t].yielded) - Len(chan[t]) ELSE @]
    /\ UNCHANGED <<pc, req, runs, session, cur, cla, chan, result, cwd,
                   active_cursor_session_id, db_messages, db_pending>>
    /\ UNCHANGED other_vars

\* variant: the terminal signal is ignored, only errors count
FinalSuccess_ErrorsOnly(cli_type, result_success, has_error) == ~has_error

\* lines 1493-1498
FinalSuccess(cli_type, result_success, has_error) ==
    IF cli_type = "cursor" /\ result_success # <<>>
    THEN result_success[1]
    ELSE ~has_error

\* lines 1488-1512: the stream is exhausted
OrchFinish(t) ==
    /\ pc[t] = "stream_end"
    /\ ChanClear(t)
    /\ LET success == FinalSuccess(req[t].cli_type, orc[t].result_success,
                                   orc[t].has_error)
       IN  result' = [result EXCEPT ![t] =
               [success |-> success, cli_used |-> req[t].cli_type,
                has_changes |-> orc[t].has_changes,
                error |-> IF success THEN None ELSE "Execution failed",
                messages_count |-> orc[t].messages_collected]]
    /\ pc' = [pc EXCEPT ![t] = "returned"]
    /\ UNCHANGED <<req, runs, session, cur, cla, chan, orc, cwd, active_cursor_session_id,
                   db_messages, db_pending, ws, hist>>
    /\ UNCHANGED other_vars

(***************************************************************************)
(* The task driver after the engine call.                                  *)
(***************************************************************************)
\* act.py 386-399
ActErrorMessage(res, cli_type) ==
    [id |-> 0] @@
    Message("assistant", "error", Get(res, "error", "Failed to execute instruction"),
            [type |-> "act_error", cli_attempted |-> cli_type])

\* act.py 334-336: the commit branch is taken for a successful result that
\* reports changes
TakesCommitBranch(res) ==
    Get(res, "success", FALSE) /\ Get(res, "has_changes", FALSE)

\* act.py 334-433.  A successful result with has_changes calls commit_all and,
\* when that succeeds (commit_ok), commits a Commit row and sends the commit
\* event; a failure of commit_all is logged (361-362).  The failure branch adds
\* the error row and broadcasts it; session.status is set at 365 or 402
ActHandleResult(t, commit_ok) ==
    /\ pc[t] = "returned"
    /\ ~TakesCommitBranch(result[t]) => commit_ok
    /\ session' = [session EXCEPT ![t].status =
          IF Get(result[t], "success", FALSE) THEN "completed" ELSE "failed"]
    /\ IF Get(result[t], "success", FALSE)
       THEN IF TakesCommitBranch(result[t]) /\ commit_ok
            THEN /\ db_messages' = [db_messages EXCEPT ![t] = @ \o db_pending[t]]
                 /\ db_pending' = [db_pending EXCEPT ![t] = <<>>]
                 /\ ws' = [ws EXCEPT ![t] = Append(@, [type |-> "commit"])]
            ELSE UNCHANGED <<db_messages, db_pending, ws>>
       ELSE LET error_msg == ActErrorMessage(result[t], req[t].cli_type)
            IN  /\ db_pending' = [db_pending EXCEPT ![t] = Append(@, error_msg)]
                /\ ws' = [ws EXCEPT ![t] =
                       Append(@, [type |-> "message", data |-> error_msg])]
                /\ UNCHANGED db_messages
    /\ pc' = [pc EXCEPT ![t] = "commit"]
    /\ UNCHANGED <<req, runs, cur, cla, chan, orc, result, cwd,
                   active_cursor_session_id, hist>>
    /\ UNCHANGED other_vars

\* act.py 435-451: db.commit() and the act_complete event, which carries
\* session.status
ActCommit(t) ==
    /\ pc[t] = "commit"
    /\ db_messages' = [db_messages EXCEPT ![t] = @ \o db_pending[t]]
    /\ db_pending' = [db_pending EXCEPT ![t] = <<>>]
    /\ session' = [session EXCEPT ![t].stored = session[t].status]
    /\ ws' = [ws EXCEPT ![t] =
          Append(@, [type |-> "act_complete", status |-> session[t].status])]
    /\ pc' = [pc EXCEPT ![t] = "done"]
    /\ UNCHANGED <<req, runs, cur, cla, chan, orc, result, cwd,
                   active_cursor_session_id, hist>>
    /\ UNCHANGED other_vars

\* act.py 461-481
ActExceptMessage(e) ==
    [id |-> 0] @@
    Message("assistant", "error", "Execution failed: " \o e, [type |-> "act_error"])

\* variant: the except branch saves the error and broadcasts nothing
ActExcept_NoEvent(t, e) ==
    /\ pc[t] = "check"
    /\ session' = [session EXCEPT ![t] = [status |-> "failed", stored |-> "failed"]]
    /\ db_messages' = [db_messages EXCEPT ![t] =
          (@ \o db_pending[t]) \o <<ActExceptMessage(e)>>]
    /\ db_pending' = [db_pending EXCEPT ![t] = <<>>]
    /\ pc' = [pc EXCEPT ![t] = "raised"]
    /\ UNCHANGED <<req, runs, cur, cla, chan, orc, result, cwd,
                   active_cursor_session_id, ws, hist>>
    /\ UNCHANGED other_vars

\* act.py 453-494: execute_instruction raised before it returned a result (the
\* adapters are built and check_availability is awaited outside its try).  The
\* session fails, the error row is added and committed, and act_complete is
\* broadcast with the status failed and the error text
ActExcept(t, e) ==
    /\ pc[t] = "check"
    /\ session' = [session EXCEPT ![t] = [status |-> "failed", stored |-> "failed"]]
    /\ db_messages' = [db_messages EXCEPT ![t] =
          (@ \o db_pending[t]) \o <<ActExceptMessage(e)>>]
    /\ db_pending' = [db_pending EXCEPT ![t] = <<>>]
    /\ ws' = [ws EXCEPT ![t] =
          Append(@, [type |-> "act_complete", status |-> "failed", error |-> e])]
    /\ pc' = [pc EXCEPT ![t] = "raised"]
    /\ UNCHANGED <<req, runs, cur, cla, chan, orc, result, cwd,
                   active_cursor_session_id, hist>>
    /\ UNCHANGED other_vars

(***************************************************************************)
(* Specifications.  Spec: one task serves MaxRuns requests of one project  *)
(* one after the other.  SpecConc: two tasks, one request each, on the     *)
(* projects of Projects, running concurrently.                             *)
(***************************************************************************)
CliTypes == {"claude", "cursor"}

Step(t, P, A, R, N, Lines, Objects) ==
    \/ \E p \in P, c \in CliTypes, a \in A : ActStart(t, p, c, a, R)
    \/ \E status \in AvailabilityResults(req[t].cli_type) : CheckAvailability(t, status)
    \/ \E spawn_ok \in BOOLEAN : CursorStart(t, spawn_ok)
    \/ \E line \in Lines : CursorReadLine(t, line, N)
    \/ CursorTerminate(t)
    \/ CursorEndOfStdout(t)
    \/ CursorFlush(t)
    \/ CursorWait(t)
    \/ ClaudeStart(t)
    \/ \E message_obj \in Objects : ClaudeReceive(t, message_obj, N)
    \/ ClaudeEndOfStream(t)
    \/ ClaudeRaise(t)
    \/ ClaudeFinally(t)
    \/ OrchPersist(t)
    \/ \E send_ok \in BOOLEAN : OrchPublish(t, send_ok)
    \/ OrchFinish(t)
    \/ \E commit_ok \in BOOLEAN : ActHandleResult(t, commit_ok)
    \/ ActCommit(t)
    \/ ActExcept(t, "engine raised")

Next == Step(1, {"p1"}, DefaultArgs, MaxRuns, MaxLines, CursorLines, SdkMessages)

Spec == Init /\ [][Next]_vars

NextConc ==
    \E t \in Tasks :
        Step(t, Projects, DefaultArgs, 1, ConcLines, ConcCursorLines, ConcSdkMessages)

SpecConc == Init /\ [][NextConc]_vars

\* the arguments of a request: project.selected_model and is_initial_prompt
RunArgs ==
    {[model |-> m, is_initial_prompt |-> b] :
        m \in {None, "sonnet-4", "claude-opus-4.1", "gpt-4o"}, b \in BOOLEAN}

\* the stdout of the runs that differ in their arguments
ArgsCursorLines ==
    {JsonLine(e) : e \in AssistantEvents}
    \cup {JsonLine([type |-> "result", subtype |-> "success", is_error |-> FALSE,
                    result |-> "ok", duration_ms |-> 1])}

NextArgs ==
    Step(1, {"p1"}, RunArgs, MaxRuns, 1, ArgsCursorLines, ConcSdkMessages)

\* successive requests of one project with any model and either prompt kind
SpecArgs == InitModel /\ [][NextArgs]_vars

(***************************************************************************)
(* _execute_with_cli on the stream of any BaseCLI implementation: the loop *)
(* takes whatever Message the adapter's generator yields, and metadata_json*)
(* is a free JSON column.                                                  *)
(***************************************************************************)
\* messages of an adapter whose metadata speaks, or not, of changes
AnyAdapterMessages ==
    {Message("assistant", "tool_use", "**Write** x",
             [tool_name |-> "Write", tool_input |-> [file_path |-> <<"x">>]]),
     Message("assistant", "chat", "done", [changes_made |-> TRUE]),
     Message("assistant", "chat", "done", [changes_made |-> FALSE]),
     Message("assistant", "chat", "done", EmptyDict),
     Message("system", "tool_result", "ok", [hidden_from_ui |-> TRUE])}

\* lines 1401-1409: the generator of the adapter yields its next message
AnyAdapterYield(t, message, N) ==
    /\ pc[t] \in {"execute", "adapter_stream"}
    /\ ChanClear(t)
    /\ Len(hist[t].yielded) < N
    /\ pc' = [pc EXCEPT ![t] = "adapter_stream"]
    /\ chan' = [chan EXCEPT ![t] = Yield(t, <<message>>)]
    /\ hist' = [hist EXCEPT ![t].yielded = @ \o Yield(t, <<message>>)]
    /\ UNCHANGED <<req, runs, session, cur, cla, orc, result, cwd, active_cursor_session_id,
                   db_messages, db_pending, ws>>
    /\ UNCHANGED other_vars

\* lines 1401-1409: the generator is exhausted
AnyAdapterEnd(t) ==
    /\ pc[t] \in {"execute", "adapter_stream"}
    /\ ChanClear(t)
    /\ pc' = [pc EXCEPT ![t] = "stream_end"]
    /\ hist' = [hist EXCEPT ![t].exit = "eof"]
    /\ UNCHANGED <<req, runs, session, cur, cla, chan, orc, result, cwd,
                   active_cursor_session_id, db_messages, db_pending, ws>>
    /\ UNCHANGED other_vars

NextAnyAdapter ==
    \/ \E c \in CliTypes, a \in DefaultArgs : ActStart(1, "p1", c, a, 1)
    \/ \E status \in AvailabilityResults(req[1].cli_type) : CheckAvailability(1, status)
    \/ \E message \in AnyAdapterMessages : AnyAdapterYield(1, message, MaxLines)
    \/ AnyAdapterEnd(1)
    \/ OrchPersist(1)
    \/ \E send_ok \in BOOLEAN : OrchPublish(1, send_ok)
    \/ OrchFinish(1)

SpecAnyAdapter == Init /\ [][NextAnyAdapter]_vars

(***************************************************************************)
(* CLISessionManager (cli_session_manager.py): one manager on one database *)
(* session; every project of Projects has a row.                           *)
(***************************************************************************)
\* session_mapping.get(cli_type), lines 31-36
SessionColumn(project_id, cli_type) ==
    IF cli_type = "claude" THEN active_claude_session_id[project_id]
    ELSE active_cursor_session_id[project_id]

\* lines 39-41 and 68-70: self._session_cache[project_id][cli_type] = session_id
CachePut(cache, project_id, cli_type, session_id) ==
    LET old == Get(cache, project_id, EmptyDict)
        new == [u \in DOMAIN old \cup {cli_type} |->
                    IF u = cli_type THEN session_id ELSE old[u]]
    IN  [q \in DOMAIN cache \cup {project_id} |->
            IF q = project_id THEN new ELSE cache[q]]

\* lines 21-22: the cached value, None when there is none
CachedSession(project_id, cli_type) ==
    Get(Get(_session_cache, project_id, EmptyDict), cli_type, None)

\* the call as the history keeps it
Op(op, project_id, cli_type, session_id) ==
    [op |-> op, project_id |-> project_id, cli_type |-> cli_type,
     session_id |-> session_id]

\* get_session_id, lines 18-43
CLISessionManager_get_session_id(project_id, cli_type, N) ==
    /\ Len(ops) < N
    /\ IF Truthy(CachedSession(project_id, cli_type))
       THEN /\ ret' = CachedSession(project_id, cli_type)
            /\ UNCHANGED _session_cache
       ELSE LET session_id == SessionColumn(project_id, cli_type)
            IN  /\ _session_cache' =
                       CachePut(_session_cache, project_id, cli_type, session_id)
                /\ ret' = session_id
    /\ ops' = Append(ops, Op("get", project_id, cli_type, None))
    /\ UNCHANGED <<active_claude_session_id, active_cursor_session_id>>
    /\ UNCHANGED <<pc, req, runs, session, cur, cla, chan, orc, result, cwd,
                   db_messages, db_pending, ws, hist>>
    /\ UNCHANGED <<call, env, gen>>

\* the body of set_session_id, lines 47-74, for the project row that exists
SetSession(project_id, cli_type, session_id) ==
    /\ IF cli_type = "claude"
       THEN /\ active_claude_session_id' =
                   [active_claude_session_id EXCEPT ![project_id] = session_id]
            /\ UNCHANGED active_cursor_session_id
       ELSE /\ active_cursor_session_id' =
                   [active_cursor_session_id EXCEPT ![project_id] = session_id]
            /\ UNCHANGED active_claude_session_id
    /\ _session_cache' = CachePut(_session_cache, project_id, cli_type, session_id)

\* set_session_id, lines 45-74
CLISessionManager_set_session_id(project_id, cli_type, session_id, N) ==
    /\ Len(ops) < N
    /\ SetSession(project_id, cli_type, session_id)
    /\ ops' = Append(ops, Op("set", project_id, cli_type, session_id))
    /\ UNCHANGED <<pc, req, runs, session, cur, cla, chan, orc, result, cwd,
                   db_messages, db_pending, ws, hist, ret>>
    /\ UNCHANGED <<call, env, gen>>

\* clear_session_id, lines 87-89: set_session_id(project_id, cli_type, None)
CLISessionManager_clear_session_id(project_id, cli_type, N) ==
    /\ Len(ops) < N
    /\ SetSession(project_id, cli_type, None)
    /\ ops' = Append(ops, Op("clear", project_id, cli_type, None))
    /\ UNCHANGED <<pc, req, runs, session, cur, cla, chan, orc, result, cwd,
                   db_messages, db_pending, ws, hist, ret>>
    /\ UNCHANGED <<call, env, gen>>

\* variant: the cache entry of the project is kept
ClearAllSessions_KeepCache(project_id) ==
    /\ active_claude_session_id' =
           [active_claude_session_id EXCEPT ![project_id] = None]
    /\ active_cursor_session_id' =
           [active_cursor_session_id EXCEPT ![project_id] = None]
    /\ UNCHANGED _session_cache

\* the body of clear_all_sessions, lines 93-104
ClearAllSessions(project_id) ==
    /\ active_claude_session_id' =
           [active_claude_session_id EXCEPT ![project_id] = None]
    /\ active_cursor_session_id' =
           [active_cursor_session_id EXCEPT ![project_id] = None]
    /\ _session_cache' =
           [q \in DOMAIN _session_cache \ {project_id} |-> _session_cache[q]]

\* clear_all_sessions, lines 91-108
CLISessionManager_clear_all_sessions(project_id, N) ==
    /\ Len(ops) < N
    /\ ClearAllSessions(project_id)
    /\ ops' = Append(ops, Op("clear_all", project_id, None, None))
    /\ UNCHANGED <<pc, req, runs, session, cur, cla, chan, orc, result, cwd,
                   db_messages, db_pending, ws, hist, ret>>
    /\ UNCHANGED <<call, env, gen>>

NextSessions ==
    \/ \E p \in Projects, c \in CliTypes : CLISessionManager_get_session_id(p, c, MaxOps)
    \/ \E p \in Projects, c \in CliTypes, s \in SessionIds \cup {""} :
           CLISessionManager_set_session_id(p, c, s, MaxOps)
    \/ \E p \in Projects, c \in CliTypes : CLISessionManager_clear_session_id(p, c, MaxOps)
    \/ \E p \in Projects : CLISessionManager_clear_all_sessions(p, MaxOps)

SpecSessions == Init /\ [][NextSessions]_vars

\* CursorAgentCLI.set_session_id, unified_manager.py 1281-1292, on the database
\* the manager reads: the adapter of a run writes the id it captured to the
\* project row and knows nothing of the manager's cache
CursorAgentCLI_set_session_id(project_id, session_id, N) ==
    /\ Len(ops) < N
    /\ active_cursor_session_id' = set_session_id(project_id, session_id)
    /\ ops' = Append(ops, Op("adapter_set", project_id, "cursor", session_id))
    /\ UNCHANGED <<active_claude_session_id, _session_cache, ret>>
    /\ UNCHANGED <<pc, req, runs, session, cur, cla, chan, orc, result, cwd,
                   db_messages, db_pending, ws, hist>>
    /\ UNCHANGED <<call, env, gen>>

\* one manager and the adapters of the runs, on one database
NextSessionsShared ==
    \/ NextSessions
    \/ \E p \in Projects, s \in SessionIds :
           CursorAgentCLI_set_session_id(p, s, MaxOps)

SpecSessionsShared == Init /\ [][NextSessionsShared]_vars

(***************************************************************************)
(* The helpers of BaseCLI, called on their own.                            *)
(***************************************************************************)
\* all that a call of a helper leaves alone
HelperUnchanged ==
    UNCHANGED <<pc, req, runs, session, cur, cla, chan, orc, result, cwd,
                active_cursor_session_id, db_messages, db_pending, ws, hist,
                session_vars, env, gen>>

\* self._get_cli_model_name(model) of the adapter of type cli_type
CallGetCliModelName(cli_type, model) ==
    /\ call' = [fn |-> "_get_cli_model_name", cli_type |-> cli_type, model |-> model,
                out |-> _get_cli_model_name(cli_type, model),
                warning |-> ModelWarning(cli_type, model)]
    /\ HelperUnchanged

\* self._extract_content(data)
CallExtractContent(data) ==
    /\ call' = [fn |-> "_extract_content", data |-> data, out |-> _extract_content(data)]
    /\ HelperUnchanged

\* self.parse_message_data(data, project_id, session_id)
CallParseMessageData(data) ==
    /\ call' = [fn |-> "parse_message_data", data |-> data, out |-> parse_message_data(data)]
    /\ HelperUnchanged

\* self._normalize_role(role), once and on its own result
CallNormalizeRole(role) ==
    /\ call' = [fn |-> "_normalize_role", role |-> role, out |-> _normalize_role(role),
                again |-> _normalize_role(_normalize_role(role))]
    /\ HelperUnchanged

\* self._create_tool_summary(tool_name, tool_input)
CallCreateToolSummary(tool_name, tool_input) ==
    /\ call' = [fn |-> "_create_tool_summary", tool_name |-> tool_name,
                tool_input |-> tool_input,
                out |-> IF SummaryRaises(tool_name, tool_input)
                        THEN Raise("TypeError")
                        ELSE JStr(_create_tool_summary(tool_name,
                                                       Formatted(tool_input)))]
    /\ HelperUnchanged

\* self._get_clean_tool_display(tool_name, tool_input)
CallGetCleanToolDisplay(tool_name, tool_input) ==
    /\ call' = [fn |-> "_get_clean_tool_display", tool_name |-> tool_name,
                tool_input |-> tool_input,
                out |-> IF DisplayRaises(tool_name, tool_input)
                        THEN Raise("AttributeError")
                        ELSE JStr(_get_clean_tool_display(tool_name,
                                                          Formatted(tool_input)))]
    /\ HelperUnchanged

\* events that name a session in more than one candidate field
CandidateEvents ==
    {[type |-> "system", sessionId |-> "s1", chatId |-> "s2"],
     [type |-> "system", chatId |-> "s1", session_id |-> "s2"],
     [type |-> "system", session_id |-> "s2", thread_id |-> "s1"],
     [type |-> "system", threadId |-> "s1"],
     [type |-> "system", thread_id |-> "s2"],
     [type |-> "system", sessionId |-> "", chat_id |-> "s2"],
     [type |-> "assistant", message |-> [sessionId |-> "s1", chat_id |-> "s2"]],
     [type |-> "assistant", message |-> [threadId |-> "s2"]],
     [type |-> "assistant", chat_id |-> "s1", message |-> [session_id |-> "s2"]],
     [type |-> "result", sessionId |-> "s1", session_id |-> "s2"],
     [type |-> "result", sessionId |-> "s2"],
     [type |-> "system"]}

\* lines 1129-1167 on one event, with the ids the loop holds
CallSessionIdAfter(event, cursor_session_id, active_session_id) ==
    /\ call' = [fn |-> "SessionIdAfter", event |-> event,
                cursor_session_id |-> cursor_session_id,
                active_session_id |-> active_session_id,
                out |-> SessionIdAfter(event, cursor_session_id, active_session_id)]
    /\ HelperUnchanged

NextHelpers ==
    \/ \E c \in CliTypes, model \in ModelArgs : CallGetCliModelName(c, model)
    \/ \E event \in CandidateEvents, cursor_session_id \in {None, "s1"},
          active_session_id \in {"s1", "s2", ChatSessionId} :
            CallSessionIdAfter(event, cursor_session_id, active_session_id)
    \/ \E data \in ExtractInputs : CallExtractContent(data)
    \/ \E data \in ExtractInputs : CallParseMessageData(data)
    \/ \E role \in RoleStrings : CallNormalizeRole(role)

SpecHelpers == Init /\ [][NextHelpers]_vars

\* The tool renderers keep no state: a behaviour is one call of one of them.
NextTools ==
    \/ \E tool_name \in ToolNames, tool_input \in ToolInputMaps :
            call.fn = "none" /\ CallCreateToolSummary(tool_name, tool_input)
    \/ \E tool_name \in ToolNames, tool_input \in ToolInputMaps :
            call.fn = "none" /\ CallGetCleanToolDisplay(tool_name, tool_input)

SpecTools == Init /\ [][NextTools]_vars

(***************************************************************************)
(* claude_act.generate_diff_with_logging: the stream loop and its map of   *)
(* pending tool invocations.                                               *)
(***************************************************************************)
\* the SDK objects one call may receive
MaxObjects == 3

\* claude_act.py lines 104-132; the pictographs are written in brackets.  The
\* modelled inputs have at most one field, so list(tool_input.keys())[:3] has
\* at most one item.
extract_tool_summary(tool_name, tool_input) ==
    LET file_path == IF "file_path" \in DOMAIN tool_input
                     THEN JoinPath(tool_input.file_path) ELSE "unknown"
        cmd == Get(tool_input, "command", "")
        keys == IF DOMAIN tool_input = {} THEN "[]"
                ELSE "['" \o (CHOOSE k \in DOMAIN tool_input : TRUE) \o "']"
    IN  CASE tool_name = "Read" -> "[read] Reading: " \o file_path
          [] tool_name = "Write" -> "[write] Writing: " \o file_path
          [] tool_name = "Edit" -> "[edit] Editing: " \o file_path
          [] tool_name = "MultiEdit" -> "[edit] Multi-editing: " \o file_path
          [] tool_name = "Bash" -> "[run] Running: " \o Shorten(cmd, 50)
          [] tool_name = "Glob" ->
                 "[search] Searching: " \o Get(tool_input, "pattern", "unknown")
          [] tool_name = "Grep" ->
                 "[grep] Grep: " \o Get(tool_input, "pattern", "unknown")
          [] tool_name = "LS" ->
                 "[dir] Listing: " \o (IF "path" \in DOMAIN tool_input
                                       THEN JoinPath(tool_input.path)
                                       ELSE "current dir")
          [] tool_name = "WebFetch" ->
                 "[web] Fetching: " \o Get(tool_input, "url", "unknown")
          [] tool_name = "TodoWrite" -> "[todo] Managing todos"
          [] OTHER -> "[tool] " \o tool_name \o ": " \o keys

\* the call of the log callback that raises, 0 when none does
FailPoints == 0..4

ThinkingBlock(thinking) == [block |-> "ThinkingBlock", thinking |-> thinking]

\* a ToolResultBlock with its fields; content is None or a string
ToolResult(tool_use_id, content, is_error) ==
    [block |-> "ToolResultBlock", tool_use_id |-> tool_use_id,
     content |-> content, is_error |-> is_error]

ToolIds == {"t1", "t2"}

GenBlocks ==
    {TextBlock("a"), ThinkingBlock("hm"),
     ToolUseBlock("t1", "Edit", [file_path |-> <<"x">>]),
     ToolUseBlock("t2", "Bash", [command |-> "ls"]),
     ToolUseBlock("t2", "mystery_tool", EmptyDict),
     ToolResult("t1", "file updated", FALSE),
     ToolResult("t2", None, TRUE),
     ToolResult("t9", "ok", FALSE)}

GenMessages ==
    {[kind |-> "AssistantMessage", content |-> <<b>>] : b \in GenBlocks}
    \cup {[kind |-> "AssistantMessage",
           content |-> <<ToolUseBlock("t1", "Edit", [file_path |-> <<"x">>]),
                         ToolResult("t1", "file updated", FALSE)>>],
          [kind |-> "SystemMessage", subtype |-> "init"],
          [kind |-> "ResultMessage", session_id |-> "s1", is_error |-> FALSE],
          [kind |-> "UserMessage"]}

\* await log_callback(kind, data), when there is a callback; the call numbered
\* fail_at raises
LogCallback(st, entry) ==
    IF st.raised \/ ~st.has_callback THEN st
    ELSE IF Len(st.log) + 1 = st.fail_at THEN [st EXCEPT !.raised = TRUE]
    ELSE [st EXCEPT !.log = Append(@, entry)]

\* variant: a result leaves its entry in the map
PopTool_Keep(pending_tools, tool_use_id) == pending_tools

\* pending_tools.pop(block.tool_use_id, None), line 261
PopTool(pending_tools, tool_use_id) ==
    [k \in DOMAIN pending_tools \ {tool_use_id} |-> pending_tools[k]]

\* lines 243-251: the diff-like information of an Edit result
DiffInfo(tool_info, content) ==
    IF Get(tool_info, "name", None) \in {"Edit", "MultiEdit"} /\ Truthy(content)
       /\ (Find(content, "updated", 1) # 0 \/ Find(content, "modified", 1) # 0)
    THEN content ELSE None

\* lines 214-261: one block of an assistant message
HandleBlock(st, b) ==
    IF st.raised THEN st
    ELSE IF b.block = "TextBlock"
    THEN LogCallback([st EXCEPT !.response_text = @ \o b.text],
                     [kind |-> "text", content |-> b.text])
    ELSE IF b.block = "ThinkingBlock"
    THEN LogCallback(st, [kind |-> "thinking", content |-> Shorten(b.thinking, 200)])
    ELSE IF b.block = "ToolUseBlock"
    THEN LET info == [name |-> b.name, input |-> b.input,
                      summary |-> extract_tool_summary(b.name, b.input)]
         IN  LogCallback([st EXCEPT !.pending_tools =
                              [k \in DOMAIN @ \cup {b.id} |->
                                  IF k = b.id THEN info ELSE @[k]]],
                         [kind |-> "tool_start", tool_id |-> b.id,
                          tool_name |-> b.name, summary |-> info.summary,
                          input |-> b.input])
    ELSE IF b.block = "ToolResultBlock"
    THEN LET tool_info == Get(st.pending_tools, b.tool_use_id, EmptyDict)
             logged == LogCallback(st,
                          [kind |-> "tool_result", tool_id |-> b.tool_use_id,
                           tool_name |-> Get(tool_info, "name", "unknown"),
                           summary |-> Get(tool_info, "summary", "Tool completed"),
                           is_error |-> b.is_error,
                           content |-> b.content,
                           diff_info |-> DiffInfo(tool_info, b.content)])
         IN  IF logged.raised THEN logged
             ELSE [logged EXCEPT !.pending_tools = PopTool(@, b.tool_use_id)]
    ELSE st

RECURSIVE HandleBlocks(_, _)
HandleBlocks(st, blocks) ==
    IF blocks = <<>> THEN st
    ELSE HandleBlocks(HandleBlock(st, Head(blocks)), Tail(blocks))

\* lines 263-278: the result object
HandleResult(st, message) ==
    LogCallback([st EXCEPT !.current_session_id =
                     IF Truthy(message.session_id) THEN message.session_id ELSE @],
                [kind |-> "result", is_error |-> message.is_error,
                 session_id |-> IF Truthy(message.session_id)
                                THEN message.session_id
                                ELSE st.current_session_id])

\* lines 183-199: the call, with or without a log callback
GenStart(has_callback, fail_at) ==
    /\ gen.pc = "idle"
    /\ gen' = LogCallback([GenInit EXCEPT !.pc = "stream",
                                           !.has_callback = has_callback,
                                           !.fail_at = fail_at],
                          [kind |-> "text", content |-> "Starting"])
    /\ UNCHANGED <<pc, req, runs, session, cur, cla, chan, orc, result, cwd,
                   active_cursor_session_id, db_messages, db_pending, ws, hist,
                   session_vars, call, env>>

\* lines 201-278: one object of the query stream; lines 280-284 when a log
\* callback raised
GenReceive(message) ==
    /\ gen.pc = "stream"
    /\ ~gen.raised
    /\ Len(gen.handled) < MaxObjects
    /\ LET st == [gen EXCEPT !.handled = Append(@, message)]
           after == IF message.kind = "AssistantMessage"
                    THEN HandleBlocks(st, message.content)
                    ELSE IF message.kind = "ResultMessage"
                    THEN HandleResult(st, message)
                    ELSE st
       IN  gen' = IF after.raised
                  THEN [after EXCEPT !.pc = "raised",
                                     !.log = Append(@, [kind |-> "error"]),
                                     !.pending_tools = EmptyDict]
                  ELSE after
    /\ UNCHANGED <<pc, req, runs, session, cur, cla, chan, orc, result, cwd,
                   active_cursor_session_id, db_messages, db_pending, ws, hist,
                   session_vars, call, env>>

\* the log callback raised in the call of line 199: lines 280-284
GenStartRaised ==
    /\ gen.pc = "stream"
    /\ gen.raised
    /\ gen' = [gen EXCEPT !.pc = "raised", !.log = Append(@, [kind |-> "error"]),
                          !.pending_tools = EmptyDict]
    /\ UNCHANGED <<pc, req, runs, session, cur, cla, chan, orc, result, cwd,
                   active_cursor_session_id, db_messages, db_pending, ws, hist,
                   session_vars, call, env>>

\* lines 286-307: the stream ends and the function returns; its locals,
\* pending_tools among them, end with it
GenReturn ==
    /\ gen.pc = "stream"
    /\ ~gen.raised
    /\ gen' = [gen EXCEPT !.pc = "returned", !.pending_tools = EmptyDict]
    /\ UNCHANGED <<pc, req, runs, session, cur, cla, chan, orc, result, cwd,
                   active_cursor_session_id, db_messages, db_pending, ws, hist,
                   session_vars, call, env>>

NextGen ==
    \/ \E has_callback \in BOOLEAN, fail_at \in FailPoints :
            GenStart(has_callback, fail_at)
    \/ \E message \in GenMessages : GenReceive(message)
    \/ GenStartRaised
    \/ GenReturn

SpecGen == Init /\ [][NextGen]_vars

(***************************************************************************)
(* Properties.                                                             *)
(***************************************************************************)
Finished(t) == pc[t] \in {"returned", "commit", "done"}

CursorRun(t) == runs[t] > 0 /\ req[t].cli_type = "cursor"

ClaudeRun(t) == runs[t] > 0 /\ req[t].cli_type = "claude"

\* the engine ran the stream to its end and returned its own result
Streamed(t) == Finished(t) /\ "cli_used" \in DOMAIN result[t]

IsPrefix(a, b) == Len(a) <= Len(b) /\ SubSeq(b, 1, Len(a)) = a

Max(S) == CHOOSE x \in S : \A y \in S : y <= x

IsResultLine(line) ==
    line.loads = "object" /\ Get(line.event, "type", None) = "result"

IsResultMessage(m) ==
    \/ Get(m.metadata_json, "event_type", None) = "result"
    \/ Get(Get(m.metadata_json, "original_event", EmptyDict), "type", None) = "result"

ResultIdx(msgs) == {i \in 1..Len(msgs) : IsResultMessage(msgs[i])}

SignalOf(m) ==
    LET e == Get(m.metadata_json, "original_event", EmptyDict)
    IN  ~(Get(e, "is_error", FALSE) \/ Get(e, "subtype", "") = "error")

ExpectedSuccess(msgs) ==
    IF ResultIdx(msgs) # {}
    THEN SignalOf(msgs[Max(ResultIdx(msgs))])
    ELSE \A i \in 1..Len(msgs) : msgs[i].message_type # "error"

\* C1: a cursor run's success is the signal of the terminal result message the
\* engine consumed (false iff is_error or subtype "error"), whatever error-type
\* messages were seen; without a result message it is "no error-type message".
C1_SuccessDetermination ==
    \A t \in Tasks :
        (pc[t] = "returned" /\ CursorRun(t) /\ Streamed(t))
        => result[t].success = ExpectedSuccess(db_messages[t])

C1_Witness ==
    \E t \in Tasks :
        /\ pc[t] = "returned" /\ CursorRun(t) /\ Streamed(t)
        /\ ResultIdx(db_messages[t]) # {}
        /\ \E i \in 1..Len(db_messages[t]) : db_messages[t][i].message_type = "error"
        /\ result[t].success = TRUE

\* C2 as stated: once a result line is read it is the last line read, the loop
\* has left the reading position, and the child is terminated before the loop
\* is left, session id captured before or not.
C2_StopsAtResult ==
    \A t \in Tasks :
        CursorRun(t) =>
            \A i \in 1..Len(hist[t].lines) :
                IsResultLine(hist[t].lines[i]) =>
                    /\ i = Len(hist[t].lines)
                    /\ pc[t] # "reading"
                    /\ pc[t] # "terminate" => cur[t].terminated

\* C3 as stated: when the stream of a run that spawned the child has ended, the
\* child has been waited on.
C3_AlwaysReaped ==
    \A t \in Tasks :
        (CursorRun(t) /\ cur[t].spawned /\ Finished(t)) => cur[t].waited

IsStreamedEnvelope(e) ==
    e.type = "message" /\ Get(e.data.metadata_json, "type", None) # "act_error"

Committed(t, m) == \E j \in 1..Len(db_messages[t]) : db_messages[t][j] = m

\* C4: every message of an adapter stream that has been sent to the WebSocket,
\* or is about to be, is already a committed row.
C4_PersistBeforePublish ==
    \A t \in Tasks :
        /\ \A i \in 1..Len(ws[t]) :
               IsStreamedEnvelope(ws[t][i]) => Committed(t, ws[t][i].data)
        /\ orc[t].sending # <<>> => Committed(t, orc[t].sending[1])

C4_Witness ==
    \E t \in Tasks :
        /\ pc[t] \in {"reading", "claude_stream"}
        /\ \E i \in 1..Len(ws[t]) : IsStreamedEnvelope(ws[t][i])

\* C5: when the adapter's stream raised after k messages, execute_instruction
\* returns success = FALSE, the k rows stay and their envelopes stay sent, and
\* the driver persists and publishes one error-type message after them.
C5_AdapterException ==
    \A t \in Tasks :
        (cla[t].raised /\ Finished(t)) =>
            LET k == Len(hist[t].at_raise)
                n == Len(ws[t])
            IN  /\ "success" \in DOMAIN result[t]
                /\ result[t].success = FALSE
                /\ IsPrefix(hist[t].at_raise, db_messages[t])
                /\ \A i \in 1..k :
                       ~Get(hist[t].at_raise[i].metadata_json, "hidden_from_ui", FALSE)
                       => \E j \in 1..n :
                              ws[t][j] = [type |-> "message", data |-> hist[t].at_raise[i]]
                /\ pc[t] = "done" =>
                       /\ Len(db_messages[t]) = k + 1
                       /\ db_messages[t][k + 1].message_type = "error"
                       /\ ws[t][n - 1] = [type |-> "message", data |-> db_messages[t][k + 1]]
                       /\ ws[t][n] = [type |-> "act_complete", status |-> "failed"]

C5_Witness ==
    \E t \in Tasks :
        /\ cla[t].raised
        /\ pc[t] = "done"
        /\ Len(hist[t].at_raise) >= 1
        /\ Len(db_messages[t]) = Len(hist[t].at_raise) + 1

\* the --resume argument or the SDK's resume option of the run
ResumeArg(t) ==
    IF req[t].cli_type = "cursor" THEN cur[t].cmd_resume ELSE cla[t].resumeSessionId

BackendStarted(t) == IsUsable(hist[t].status) /\ pc[t] # "execute"

\* C6 as stated: for both backends, a run that follows a run of the same project
\* and backend which observed a session id resumes with that id.
C6_SessionOutlivesExecution ==
    \A t \in Tasks :
        (/\ BackendStarted(t)
         /\ hist[t].prev.cli_type = req[t].cli_type
         /\ hist[t].prev.project_id = req[t].project_id
         /\ Truthy(hist[t].prev.session_id))
        => ResumeArg(t) = hist[t].prev.session_id

ObservedIdx(lines) ==
    {i \in 1..Len(lines) :
        lines[i].loads = "object" /\ Truthy(PotentialSessionId(lines[i].event))}

LastObserved(lines) ==
    IF ObservedIdx(lines) = {} THEN None
    ELSE PotentialSessionId(lines[Max(ObservedIdx(lines))].event)

\* C7 as stated: a stored id is the --resume argument verbatim, and after a run
\* whose events carried session ids the registry holds the one observed last.
C7_RegistryPreferredAndLatest ==
    \A t \in Tasks :
        CursorRun(t) =>
            /\ (BackendStarted(t) /\ Truthy(hist[t].registry_at_start))
               => cur[t].cmd_resume = hist[t].registry_at_start
            /\ (Streamed(t) /\ Truthy(LastObserved(hist[t].lines)))
               => active_cursor_session_id[req[t].project_id]
                      = LastObserved(hist[t].lines)

Unusable(status) ==
    /\ status # EmptyDict
    /\ ~Get(status, "available", FALSE) \/ ~Get(status, "configured", FALSE)

\* C8: after an availability check that reported unavailable or unconfigured,
\* the result is the failure with the adapter's error text, no stream was
\* started, the engine persisted and published nothing, and the registry is
\* what it was.
C8_UnavailableFailsFast ==
    \A t \in Tasks :
        (Finished(t) /\ Unusable(hist[t].status)) =>
            /\ result[t] = [success |-> FALSE, error |-> hist[t].status.error,
                            cli_attempted |-> req[t].cli_type]
            /\ cur[t] = CurInit /\ cla[t] = ClaInit
            /\ orc[t] = OrcInit /\ chan[t] = <<>>
            /\ hist[t].lines = <<>>
            /\ active_cursor_session_id[req[t].project_id] = hist[t].registry_at_start
            /\ pc[t] = "returned" =>
                   /\ db_messages[t] = <<>> /\ db_pending[t] = <<>>
                   /\ ws[t] = <<[type |-> "act_start"]>>

C8_Witness ==
    \E t \in Tasks :
        /\ pc[t] = "returned"
        /\ Unusable(hist[t].status)
        /\ result[t].success = FALSE

\* C9 as stated: of two runs on different projects, each Claude run has the
\* process in its own project's directory while it streams, and when both are
\* done the working directory is the one before either started.
C9_WorkingDirectoryIsolated ==
    (\A u \in Tasks : runs[u] > 0) /\ req[1].project_id # req[2].project_id =>
        /\ \A t \in Tasks :
               (ClaudeRun(t) /\ pc[t] \in {"claude_stream", "claude_exit"})
               => cwd = RepoPath(req[t].project_id)
        /\ (\A t \in Tasks : pc[t] = "done") => cwd = HomeDir

Last(seq) == seq[Len(seq)]

\* the text a line adds to assistant_message_buffer
BufferedText(line) ==
    IF line.loads # "object" THEN ""
    ELSE LET m == _handle_cursor_stream_json(line.event)
         IN  IF m # NoMessage /\ m[1].role = "assistant" /\ m[1].message_type = "chat"
             THEN m[1].content ELSE ""

RECURSIVE TextRead(_)
TextRead(lines) ==
    IF lines = <<>> THEN "" ELSE BufferedText(Head(lines)) \o TextRead(Tail(lines))

RECURSIVE TextEmitted(_)
TextEmitted(msgs) ==
    IF msgs = <<>> THEN ""
    ELSE (IF Get(Head(msgs).metadata_json, "event_type", None) = "assistant_aggregated"
          THEN Head(msgs).content ELSE "") \o TextEmitted(Tail(msgs))

IsParseErrorMessage(m, line_str) ==
    /\ m.role = "assistant" /\ m.message_type = "chat"
    /\ m.content = line_str
    /\ "parse_error" \in DOMAIN m.metadata_json

\* the step that reads a line json.loads rejects
MalformedLineStep(t) ==
    /\ pc[t] = "reading"
    /\ Len(hist'[t].lines) = Len(hist[t].lines) + 1
    /\ Last(hist'[t].lines).loads = "JSONDecodeError"

MalformedLineEffect(t) ==
    /\ Len(chan'[t]) = 1
    /\ IsParseErrorMessage(chan'[t][1], Last(hist'[t].lines).line_str)
    /\ pc'[t] = "reading"
    /\ cur'[t] = cur[t]
    /\ active_cursor_session_id' = active_cursor_session_id

\* a run whose loop ended at the end of stdout or at the result break has
\* emitted all the assistant text it read, and no error-type message
TextKept ==
    \A t \in Tasks :
        (CursorRun(t) /\ Streamed(t) /\ pc[t] = "returned"
         /\ hist[t].exit \in {"eof", "result"}) =>
            /\ TextEmitted(db_messages[t]) = TextRead(hist[t].lines)
            /\ \A i \in 1..Len(db_messages[t]) : db_messages[t][i].message_type # "error"

\* C10: reading a malformed line yields exactly one chat message with the raw
\* line as content and a parse_error entry in its metadata, leaves the loop at
\* the next line with its buffer, flags and session id untouched; and a run
\* that ends without an exception has emitted all assistant text it read.
C10_MalformedLineContinues ==
    /\ [][\A t \in Tasks : MalformedLineStep(t) => MalformedLineEffect(t)]_vars
    /\ []TextKept

C10_Witness ==
    \E t \in Tasks :
        /\ CursorRun(t) /\ Streamed(t) /\ hist[t].exit = "eof"
        /\ \E i, j \in 1..Len(hist[t].lines) :
               /\ i < j
               /\ hist[t].lines[i].loads = "JSONDecodeError"
               /\ BufferedText(hist[t].lines[j]) # ""
        /\ \E i \in 1..Len(db_messages[t]) :
               "parse_error" \in DOMAIN db_messages[t][i].metadata_json
        /\ TextEmitted(db_messages[t]) # ""

\* the line the read loop of a cursor run handled last
AtLine(t) ==
    /\ CursorRun(t)
    /\ pc[t] \in {"reading", "terminate"}
    /\ hist[t].lines # <<>>

IsToolCallLine(line, subtype) ==
    /\ line.loads = "object"
    /\ Get(line.event, "type", None) = "tool_call"
    /\ Get(line.event, "subtype", None) = subtype
    /\ DOMAIN Get(line.event, "tool_call", EmptyDict) # {}

ToolKey(line) == CHOOSE k \in DOMAIN line.event.tool_call : TRUE

\* a tool_call completed event gives one hidden tool_result message at that event
ToolResultEmitted ==
    \A t \in Tasks :
        (AtLine(t) /\ IsToolCallLine(Last(hist[t].lines), "completed")) =>
            /\ hist[t].yielded # <<>>
            /\ Last(hist[t].yielded).message_type = "tool_result"
            /\ Get(Last(hist[t].yielded).metadata_json, "hidden_from_ui", FALSE)

\* C11 as stated: once a tool_call started event is handled, the message
\* yielded last is a tool_use message with the summary, the tool name and the
\* tool input of that event; a completed event gives a hidden tool_result.
C11_ToolCallMessages ==
    /\ \A t \in Tasks :
        (AtLine(t) /\ IsToolCallLine(Last(hist[t].lines), "started")) =>
            LET line == Last(hist[t].lines)
                args == Get(line.event.tool_call[ToolKey(line)], "args", EmptyDict)
            IN  /\ hist[t].yielded # <<>>
                /\ Last(hist[t].yielded).message_type = "tool_use"
                /\ Get(Last(hist[t].yielded).metadata_json, "tool_input", None) = args
                /\ Last(hist[t].yielded).content
                       = _create_tool_summary(StripToolCall(ToolKey(line)), args)
    /\ ToolResultEmitted

\* the texts of the maximal runs of consecutive assistant events; a blank or
\* malformed line is no event and does not end a run
RECURSIVE AssistantRuns(_, _)
AssistantRuns(lines, acc) ==
    LET run == IF acc # "" THEN <<acc>> ELSE <<>>
    IN  IF lines = <<>> THEN run
        ELSE IF Head(lines).loads # "object"
        THEN AssistantRuns(Tail(lines), acc)
        ELSE IF Get(Head(lines).event, "type", None) = "assistant"
        THEN AssistantRuns(Tail(lines),
                           acc \o PartsText(Head(lines).event.message.content))
        ELSE run \o AssistantRuns(Tail(lines), "")

\* the contents of the chat messages that are not raw output of a bad line
RECURSIVE ChatContents(_)
ChatContents(msgs) ==
    IF msgs = <<>> THEN <<>>
    ELSE (IF /\ Head(msgs).message_type = "chat"
             /\ "parse_error" \notin DOMAIN Head(msgs).metadata_json
          THEN <<Head(msgs).content>> ELSE <<>>)
         \o ChatContents(Tail(msgs))

\* C12 as stated: a cursor run that left the loop at end of stdout or at the
\* result break has yielded, as its chat messages, exactly the texts of the
\* maximal runs of consecutive assistant events, one message per run, in order.
C12_AssistantRunsCoalesced ==
    \A t \in Tasks :
        (/\ CursorRun(t) /\ Streamed(t) /\ pc[t] = "returned"
         /\ hist[t].exit \in {"eof", "result"})
        => ChatContents(hist[t].yielded) = AssistantRuns(hist[t].lines, "")

\* C13 as stated: once a result event is handled, the message yielded last is
\* a hidden message carrying that event, also when its result text is empty or
\* absent; so a run that read a result event returns with a terminal signal seen.
C13_ResultAlwaysSignalled ==
    \A t \in Tasks :
        /\ (AtLine(t) /\ IsResultLine(Last(hist[t].lines))) =>
               /\ hist[t].yielded # <<>>
               /\ IsResultMessage(Last(hist[t].yielded))
               /\ Get(Last(hist[t].yielded).metadata_json, "hidden_from_ui", FALSE)
               /\ Last(hist[t].yielded).metadata_json.original_event
                      = Last(hist[t].lines).event
        /\ (/\ CursorRun(t) /\ Streamed(t)
            /\ \E i \in 1..Len(hist[t].lines) : IsResultLine(hist[t].lines[i]))
           => orc[t].result_success # <<>>

\* the step in which a Claude run handles one more SDK object
ClaudeReceiveStep(t, kind) ==
    /\ pc[t] = "claude_stream"
    /\ Len(hist'[t].lines) = Len(hist[t].lines) + 1
    /\ Last(hist'[t].lines).kind = kind

ToolIdx(blocks) == {i \in 1..Len(blocks) : blocks[i].block = "ToolUseBlock"}

NthTool(blocks, k) ==
    CHOOSE i \in ToolIdx(blocks) : Cardinality({j \in ToolIdx(blocks) : j <= i}) = k

\* y starts with one tool_use message per tool-use block, in block order
ToolUseShape(y, blocks) ==
    \A k \in 1..Cardinality(ToolIdx(blocks)) :
        LET b == blocks[NthTool(blocks, k)]
        IN  /\ y[k].message_type = "tool_use"
            /\ y[k].content = _create_tool_summary(b.name, b.input)
            /\ y[k].metadata_json.tool_name = b.name
            /\ y[k].metadata_json.tool_input = b.input
            /\ y[k].metadata_json.tool_id = b.id

\* y is the tool_use messages followed by one chat message with `text` iff has_chat
AssistantShape(y, blocks, has_chat, text) ==
    LET n == Cardinality(ToolIdx(blocks))
    IN  /\ Len(y) = n + (IF has_chat THEN 1 ELSE 0)
        /\ ToolUseShape(y, blocks)
        /\ has_chat => (y[n + 1].message_type = "chat" /\ y[n + 1].content = text)

\* C14 as stated: an assistant event yields its tool_use messages and then one
\* chat message with the accumulated text iff that text is non-empty.
C14_AssistantEventAsStated ==
    [][\A t \in Tasks :
          ClaudeReceiveStep(t, "AssistantMessage") =>
              LET blocks == Last(hist'[t].lines).content
              IN  AssistantShape(chan'[t], blocks, BlockText(blocks) # "",
                                 BlockText(blocks))]_vars

\* C14, amended: an assistant event yields one tool_use message per tool-use
\* block in block order (summary, name, input, id), nothing for tool-result
\* blocks, and then one chat message iff the accumulated text has a
\* non-whitespace character; its content is that text stripped.
C14_AssistantEvent ==
    [][\A t \in Tasks :
          ClaudeReceiveStep(t, "AssistantMessage") =>
              LET blocks == Last(hist'[t].lines).content
              IN  AssistantShape(chan'[t], blocks, Strip(BlockText(blocks)) # "",
                                 Strip(BlockText(blocks)))]_vars

C14_Witness ==
    \E t \in Tasks :
        /\ ClaudeRun(t) /\ pc[t] = "claude_stream"
        /\ Len(hist[t].lines) = 1
        /\ hist[t].lines[1].kind = "AssistantMessage"
        /\ ToolIdx(hist[t].lines[1].content) # {}
        /\ BlockText(hist[t].lines[1].content) = "a "
        /\ Len(hist[t].yielded) = 2
        /\ hist[t].yielded[1].message_type = "tool_use"
        /\ hist[t].yielded[2].content = "a"

\* in a Claude run a result object is the last object handled
ResultEndsStream ==
    \A t \in Tasks :
        ClaudeRun(t) =>
            \A i \in 1..Len(hist[t].lines) :
                hist[t].lines[i].kind = "ResultMessage" =>
                    /\ i = Len(hist[t].lines)
                    /\ pc[t] # "claude_stream"
                    /\ Last(hist[t].yielded).message_type = "result"

\* C15: the step that handles a result object yields exactly one result message,
\* hidden from the UI, and leaves the receive loop; no object is handled and no
\* message yielded after it; the step that handles a user object yields nothing.
C15_ResultEndsClaudeStream ==
    /\ [][\A t \in Tasks :
             /\ ClaudeReceiveStep(t, "ResultMessage") =>
                    /\ Len(chan'[t]) = 1
                    /\ chan'[t][1].message_type = "result"
                    /\ Get(chan'[t][1].metadata_json, "hidden_from_ui", FALSE)
                    /\ pc'[t] = "claude_exit"
             /\ ClaudeReceiveStep(t, "UserMessage") =>
                    (chan'[t] = <<>> /\ hist'[t].yielded = hist[t].yielded)]_vars
    /\ []ResultEndsStream

C15_Witness ==
    \E t \in Tasks :
        /\ ClaudeRun(t) /\ Streamed(t) /\ hist[t].exit = "result"
        /\ \E i \in 1..Len(hist[t].lines) : hist[t].lines[i].kind = "UserMessage"
        /\ Len(hist[t].lines) = MaxLines
        /\ Last(hist[t].yielded).message_type = "result"

\* the message carries the hidden_from_ui mark
MarkedHidden(m) ==
    /\ "hidden_from_ui" \in DOMAIN m.metadata_json
    /\ m.metadata_json.hidden_from_ui = TRUE

NotMarkedHidden(m) == ~MarkedHidden(m)

\* the adapter messages handed to the WebSocket sink, in order
PublishedData(t) ==
    LET sent == SelectSeq(ws[t], IsStreamedEnvelope)
    IN  [i \in 1..Len(sent) |-> sent[i].data]

\* the yielded messages whose iteration of the loop has passed the send
PastSend(t) ==
    LET taken == Len(hist[t].yielded) - Len(chan[t])
        n == IF orc[t].sending # <<>> THEN taken - 1 ELSE taken
    IN  SubSeq(hist[t].yielded, 1, n)

IsAdapterRow(m) == Get(m.metadata_json, "type", None) # "act_error"

\* C16: the messages published to the WebSocket sink are exactly the yielded
\* messages not marked hidden_from_ui, once each and in yield order; hidden
\* messages (init, tool_result, result) are persisted and never published.
C16_PublishIffNotHidden ==
    \A t \in Tasks :
        runs[t] > 0 =>
            /\ PublishedData(t) = SelectSeq(PastSend(t), NotMarkedHidden)
            /\ IsPrefix(SelectSeq(PastSend(t), MarkedHidden),
                        SelectSeq(SelectSeq(db_messages[t], IsAdapterRow), MarkedHidden))
            /\ \A i \in 1..Len(hist[t].yielded) :
                   hist[t].yielded[i].message_type \in {"system", "tool_result", "result"}
                       => MarkedHidden(hist[t].yielded[i])

C16_Witness ==
    \E t \in Tasks :
        /\ Streamed(t) /\ pc[t] = "returned"
        /\ Len(SelectSeq(hist[t].yielded, MarkedHidden)) >= 2
        /\ Len(PublishedData(t)) >= 1
        /\ ~MarkedHidden(Last(hist[t].yielded))
        /\ PublishedData(t) = SelectSeq(hist[t].yielded, NotMarkedHidden)

\* the rows of the run that came from the adapter, in insertion order
AdapterRows(t) == SelectSeq(db_messages[t], IsAdapterRow)

\* C17: the rows persisted for a run, followed by the messages yielded and not
\* yet taken, are the yielded messages in yield order, hidden ones included,
\* each once; the returned messages_count is the number of yielded messages.
C17_AllYieldedPersisted ==
    \A t \in Tasks :
        runs[t] > 0 =>
            /\ AdapterRows(t) \o chan[t] = hist[t].yielded
            /\ (Finished(t) /\ "messages_count" \in DOMAIN result[t]) =>
                   /\ AdapterRows(t) = hist[t].yielded
                   /\ result[t].messages_count = Len(hist[t].yielded)

C17_Witness ==
    \E t \in Tasks :
        /\ pc[t] = "returned" /\ "messages_count" \in DOMAIN result[t]
        /\ Len(hist[t].yielded) = 4
        /\ Len(SelectSeq(hist[t].yielded, MarkedHidden)) = 2
        /\ Len(db_messages[t]) = 4
        /\ result[t].messages_count = 4

\* the result of a run as the stream alone decides it
StreamSuccess(cli_type, msgs) ==
    IF cli_type = "cursor" /\ ResultIdx(msgs) # {}
    THEN SignalOf(msgs[Max(ResultIdx(msgs))])
    ELSE \A i \in 1..Len(msgs) : msgs[i].message_type # "error"

StreamChanges(msgs) ==
    \E i \in 1..Len(msgs) : "changes_made" \in DOMAIN msgs[i].metadata_json

\* the adapter came to the end of its stream without raising
StreamCompleted(t) == pc[t] = "returned" /\ hist[t].exit \in {"result", "eof"}

\* C18: a send that raises changes nothing but the sink: the step that meets it
\* leaves the run where it was, the messages yielded after it are persisted and
\* offered to the sink like any other, and a completed run returns the success,
\* has_changes and messages_count its stream decides, whether a send failed or not.
C18_PublishFailureSwallowed ==
    /\ [][\A t \in Tasks :
             hist'[t].send_failed # hist[t].send_failed /\ hist'[t].send_failed # 0 =>
                 /\ pc'[t] = pc[t] /\ result'[t] = result[t]
                 /\ chan'[t] = chan[t] /\ db_messages'[t] = db_messages[t]]_vars
    /\ [](\A t \in Tasks :
             runs[t] > 0 =>
                 /\ hist[t].send_failed # 0 =>
                        /\ AdapterRows(t) \o chan[t] = hist[t].yielded
                        /\ PublishedData(t) = SelectSeq(PastSend(t), NotMarkedHidden)
                 /\ StreamCompleted(t) =>
                        /\ Streamed(t)
                        /\ result[t].success = StreamSuccess(req[t].cli_type, hist[t].yielded)
                        /\ result[t].has_changes = StreamChanges(hist[t].yielded)
                        /\ result[t].messages_count = Len(hist[t].yielded))

C18_Witness ==
    \E t \in Tasks :
        /\ StreamCompleted(t) /\ Streamed(t)
        /\ hist[t].send_failed # 0
        /\ hist[t].send_failed < Len(hist[t].yielded)
        /\ \E i \in (hist[t].send_failed + 1)..Len(hist[t].yielded) :
               /\ NotMarkedHidden(hist[t].yielded[i])
               /\ \E j \in 1..Len(ws[t]) :
                      IsStreamedEnvelope(ws[t][j]) /\ ws[t][j].data = hist[t].yielded[i]
        /\ result[t].success
        /\ result[t].messages_count = Len(hist[t].yielded)

\* the metadata of the message says that changes were made
AssertsChanges(m) ==
    /\ "changes_made" \in DOMAIN m.metadata_json
    /\ m.metadata_json.changes_made = TRUE

\* C19: the returned has_changes is true exactly when some message of the run
\* carries metadata asserting that changes were made; a Write tool_use alone, or
\* metadata stating that no changes were made, leave it false.
C19_HasChangesIffAsserted ==
    \A t \in Tasks :
        (pc[t] = "returned" /\ Streamed(t)) =>
            result[t].has_changes =
                (\E i \in 1..Len(hist[t].yielded) : AssertsChanges(hist[t].yielded[i]))

\* the argument of the last set_session_id(p, c, s) of the calls that no
\* clear_session_id(p, c) or clear_all_sessions(p) follows, None without one
RECURSIVE LastSet(_, _, _)
LastSet(calls, p, c) ==
    IF calls = <<>> THEN None
    ELSE LET o == calls[Len(calls)]
             before == SubSeq(calls, 1, Len(calls) - 1)
         IN  IF o.op = "set" /\ o.project_id = p /\ o.cli_type = c THEN o.session_id
             ELSE IF o.op = "clear" /\ o.project_id = p /\ o.cli_type = c THEN None
             ELSE IF o.op = "clear_all" /\ o.project_id = p THEN None
             ELSE LastSet(before, p, c)

\* what get_session_id(p, c) would return in this state
WouldGet(p, c) ==
    IF Truthy(CachedSession(p, c)) THEN CachedSession(p, c) ELSE SessionColumn(p, c)

\* C20: after any sequence of calls on existing projects, get_session_id(p, c)
\* returns the argument of the last set_session_id(p, c, s) not followed by a
\* clear of (p, c) or of p, None without one; a call on (p, c) leaves the value
\* of every other project and of the other backend type of p as it was.
C20_SessionManagerLastSet ==
    /\ [](\A p \in Projects, c \in CliTypes : WouldGet(p, c) = LastSet(ops, p, c))
    /\ []((ops # <<>> /\ Last(ops).op = "get") =>
             ret = LastSet(ops, Last(ops).project_id, Last(ops).cli_type))
    /\ [][ops' # ops =>
             \A p \in Projects, c \in CliTypes :
                 (\/ p # Last(ops').project_id
                  \/ Last(ops').op # "clear_all" /\ c # Last(ops').cli_type) =>
                     /\ SessionColumn(p, c)' = SessionColumn(p, c)
                     /\ WouldGet(p, c)' = WouldGet(p, c)]_vars

C20_Witness ==
    /\ Len(ops) = MaxOps
    /\ ops[1].op = "set" /\ ops[1].project_id = "p1" /\ ops[1].cli_type = "cursor"
    /\ ops[2].op = "get" /\ ops[2].project_id = "p1" /\ ops[2].cli_type = "claude"
    /\ ops[3].op = "clear_all" /\ ops[3].project_id = "p1"
    /\ ops[4].op = "get" /\ ops[4].project_id = "p1" /\ ops[4].cli_type = "cursor"
    /\ ret = None

\* the session ids the events read by the run carried
ObservedIds(t) ==
    {PotentialSessionId(hist[t].lines[i].event) : i \in ObservedIdx(hist[t].lines)}

RegistryKey(t) == CursorProjectId(RepoPath(req[t].project_id))

\* the step in which the cursor run of t takes an id from an event
Captures(t) ==
    /\ CursorRun(t)
    /\ cur'[t].cursor_session_id # cur[t].cursor_session_id
    /\ Truthy(cur'[t].cursor_session_id)

\* the step in which execute_instruction of t returns
Returns(t) == pc[t] # "returned" /\ pc'[t] = "returned"

\* C21: the cursor registry is last-write-wins.  Every capture of an id by a
\* run is written through whole, and nothing else changes the entry, so the
\* entry is the id written last; after two overlapping runs of one project that
\* each observed one id it is one of the two; a run that had the project to
\* itself leaves the id it observed, or the previous value if it observed none.
C21_LastWriteWins ==
    /\ [][\A t \in Tasks :
             /\ Captures(t) =>
                    /\ active_cursor_session_id'[RegistryKey(t)] = cur'[t].cursor_session_id
                    /\ cur'[t].cursor_session_id
                           = PotentialSessionId(Last(hist'[t].lines).event)
             /\ (Returns(t) /\ CursorRun(t) /\ ~hist[t].overlapped
                   /\ Cardinality(ObservedIds(t)) <= 1) =>
                    active_cursor_session_id'[RegistryKey(t)] =
                        IF ObservedIds(t) = {} THEN hist[t].registry_at_start
                        ELSE CHOOSE x \in ObservedIds(t) : TRUE]_vars
    /\ [][\A p \in Projects :
             active_cursor_session_id'[p] # active_cursor_session_id[p] =>
                 \E t \in Tasks : Captures(t) /\ RegistryKey(t) = p]_vars
    /\ [](\A t, u \in Tasks :
             (/\ t # u /\ CursorRun(t) /\ CursorRun(u)
              /\ req[t].project_id = req[u].project_id
              /\ Finished(t) /\ Finished(u)
              /\ hist[t].overlapped /\ hist[u].overlapped
              /\ Cardinality(ObservedIds(t)) = 1 /\ Cardinality(ObservedIds(u)) = 1)
             => active_cursor_session_id[RegistryKey(t)]
                    \in ObservedIds(t) \cup ObservedIds(u))

C21_Witness ==
    /\ CursorRun(1) /\ CursorRun(2) /\ req[1].project_id = req[2].project_id
    /\ pc[1] = "returned" /\ pc[2] = "returned"
    /\ hist[1].overlapped /\ hist[2].overlapped
    /\ ObservedIds(1) = {"s1"} /\ ObservedIds(2) = {"s2"}
    /\ cur[1].cursor_session_id = "s1" /\ cur[2].cursor_session_id = "s2"
    /\ active_cursor_session_id[RegistryKey(1)] = "s1"

\* C22: the resolved model is the table's entry for a key of the table, the
\* input itself for one of the table's values and for any other name, the last
\* with a warning; None and "" resolve to None; the call always returns.
C22_ModelResolution ==
    call.fn = "_get_cli_model_name" =>
        LET table == MODEL_MAPPING[call.cli_type]
        IN  /\ call.model \in {None, ""} => call.out = None /\ ~call.warning
            /\ (call.model \notin {None, ""} /\ call.model \in DOMAIN table) =>
                   call.out = table[call.model] /\ ~call.warning
            /\ (call.model \notin {None, ""} /\ call.model \notin DOMAIN table
                  /\ \E k \in DOMAIN table : table[k] = call.model) =>
                   call.out = call.model /\ ~call.warning
            /\ (call.model \notin {None, ""} /\ call.model \notin DOMAIN table
                  /\ \A k \in DOMAIN table : table[k] # call.model) =>
                   call.out = call.model /\ call.warning

C22_Witness ==
    /\ call.fn = "_get_cli_model_name"
    /\ call.cli_type = "cursor" /\ call.model = "claude-sonnet-4-20250514"
    /\ call.out = "sonnet-4"

\* the adapter of the run has built its options or its command line
AdapterStarted(t) ==
    IF req[t].cli_type = "cursor" THEN cur[t].cmd_flags # {}
    ELSE cla[t].allowed_tools # {}

\* the model in ClaudeCodeOptions, or after -m on the command line (None: no -m)
HandedModel(t) ==
    IF req[t].cli_type = "cursor" THEN cur[t].cmd_model ELSE cla[t].cli_model

\* the model a backend gets when the request names none
BackendDefault(c) ==
    IF c = "claude" THEN "claude-sonnet-4-20250514" ELSE env.CURSOR_MODEL

\* the model as the argument of the run decides it
ModelOfArgument(c, model) ==
    IF model \in {None, ""} THEN BackendDefault(c)
    ELSE IF model \in DOMAIN MODEL_MAPPING[c] THEN MODEL_MAPPING[c][model]
    ELSE model

\* C23: the model handed to the backend depends on the model argument of the
\* run only: it is the argument resolved, or the backend default without one;
\* a run with the argument of the run before it hands over the same model, and
\* a run without argument hands over the default, whatever the run before used.
C23_ModelFromArgumentAlone ==
    \A t \in Tasks :
        (runs[t] > 0 /\ AdapterStarted(t)) =>
            /\ HandedModel(t) = ModelOfArgument(req[t].cli_type, req[t].model)
            /\ (/\ hist[t].prev.started
                /\ hist[t].prev.cli_type = req[t].cli_type
                /\ hist[t].prev.project_id = req[t].project_id
                /\ hist[t].prev.model = req[t].model)
               => HandedModel(t) = hist[t].prev.cli_model
            /\ (hist[t].prev.started /\ req[t].model = None)
               => HandedModel(t) = BackendDefault(req[t].cli_type)

C23_Witness ==
    \E t \in Tasks :
        /\ runs[t] = 2 /\ AdapterStarted(t) /\ pc[t] = "returned"
        /\ req[t].cli_type = "claude" /\ req[t].model = None
        /\ hist[t].prev.started /\ hist[t].prev.cli_type = "claude"
        /\ hist[t].prev.model = "claude-opus-4.1"
        /\ hist[t].prev.cli_model = "claude-opus-4-1-20250805"
        /\ HandedModel(t) = "claude-sonnet-4-20250514"

\* the options of cursor-agent that the command line of lines 1080-1100 can hold;
\* none of them names a tool, and --force lets the agent use every tool it has
CursorCmdOptions == {"--force", "-p", "--output-format", "--resume", "--api-key", "-m"}

\* the backend of the run may use the tool
Permitted(t, tool) ==
    IF req[t].cli_type = "cursor"
    THEN cur[t].cmd_flags \subseteq CursorCmdOptions
    ELSE tool \in cla[t].allowed_tools \ cla[t].disallowed_tools

\* C24: in a run of either adapter TodoWrite is permitted to the backend
\* exactly when the request is not the initial prompt.
C24_TodoWriteExcludedOnInitialPrompt ==
    \A t \in Tasks :
        (runs[t] > 0 /\ AdapterStarted(t)) =>
            (Permitted(t, "TodoWrite") <=> ~req[t].is_initial_prompt)

\* C25: the content the normalization layer extracts from backend data is a
\* string and never null, whatever the shape of the data: _extract_content
\* returns a string, and the Message of parse_message_data holds one.
C25_ContentAlwaysString ==
    /\ call.fn = "_extract_content" => call.out.t = "str"
    /\ call.fn = "parse_message_data" =>
           (call.out.t = "Message" /\ call.out.content.t = "str")

\* C26: both tool renderers return a non-empty string and do not raise, for
\* every tool name and every tool-input map.
C26_RenderersTotal ==
    call.fn \in {"_create_tool_summary", "_get_clean_tool_display"} =>
        (call.out.t = "str" /\ call.out.s # "")

\* the step in which a cursor run handles a user event
UserEventStep(t) ==
    /\ pc[t] = "reading"
    /\ Len(hist'[t].lines) = Len(hist[t].lines) + 1
    /\ Last(hist'[t].lines).loads = "object"
    /\ Get(Last(hist'[t].lines).event, "type", None) = "user"

\* what is yielded in that step: nothing, or the assistant text buffered before
FlushOnly(t) ==
    /\ Len(chan'[t]) = (IF cur[t].assistant_message_buffer # "" THEN 1 ELSE 0)
    /\ \A i \in 1..Len(chan'[t]) :
           /\ chan'[t][i].role = "assistant"
           /\ chan'[t][i].message_type = "chat"
           /\ chan'[t][i].content = cur[t].assistant_message_buffer
           /\ chan'[t][i].metadata_json.event_type = "assistant_aggregated"
    /\ cur'[t].assistant_message_buffer = ""

\* no yielded message has the role, the text or the event of a prompt echo
NoEchoMessage ==
    \A t \in Tasks :
        CursorRun(t) =>
            \A i \in 1..Len(hist[t].yielded) :
                LET m == hist[t].yielded[i]
                IN  /\ m.role # "user"
                    /\ Find(m.content, PromptEcho, 1) = 0
                    /\ Get(m.metadata_json, "event_type", None) # "user"
                    /\ Get(Get(m.metadata_json, "original_event", EmptyDict),
                           "type", None) # "user"

\* C28: a user (prompt echo) event of the cursor stream gives no message of its
\* own: no yielded message has its role, content or event, and the step that
\* handles it yields at most the flush of the assistant text buffered before it.
C28_UserEventSuppressed ==
    /\ [][\A t \in Tasks : UserEventStep(t) => FlushOnly(t)]_vars
    /\ []NoEchoMessage

C28_Witness ==
    \E t \in Tasks :
        /\ CursorRun(t) /\ pc[t] = "reading"
        /\ Len(hist[t].lines) = 2
        /\ Get(hist[t].lines[1].event, "type", None) = "assistant"
        /\ Get(hist[t].lines[2].event, "type", None) = "user"
        /\ Len(hist[t].yielded) = 1
        /\ hist[t].yielded[1].content = PartsText(hist[t].lines[1].event.message.content)
        /\ cur[t].assistant_message_buffer = ""

\* the blocks of the assistant messages handled so far
RECURSIVE BlocksOf(_)
BlocksOf(msgs) ==
    IF msgs = <<>> THEN <<>>
    ELSE (IF Head(msgs).kind = "AssistantMessage" THEN Head(msgs).content ELSE <<>>)
         \o BlocksOf(Tail(msgs))

\* the ids announced by a tool-use block that no tool-result block follows
Outstanding(blocks) ==
    {id \in ToolIds \cup {"t9"} :
        \E i \in 1..Len(blocks) :
            /\ blocks[i].block = "ToolUseBlock" /\ blocks[i].id = id
            /\ \A j \in (i + 1)..Len(blocks) :
                   ~(blocks[j].block = "ToolResultBlock"
                     /\ blocks[j].tool_use_id = id)}

PendingExact ==
    (gen.pc = "stream" /\ ~gen.raised) =>
        DOMAIN gen.pending_tools = Outstanding(BlocksOf(gen.handled))

\* the step that handles an assistant message of one tool-result block
ToolResultStep ==
    /\ gen.pc = "stream"
    /\ Len(gen'.handled) = Len(gen.handled) + 1
    /\ Last(gen'.handled).kind = "AssistantMessage"
    /\ Len(Last(gen'.handled).content) = 1
    /\ Last(gen'.handled).content[1].block = "ToolResultBlock"

ToolResultEffect ==
    LET id == Last(gen'.handled).content[1].tool_use_id
        known == id \in DOMAIN gen.pending_tools
        fails == gen.has_callback /\ Len(gen.log) + 1 = gen.fail_at
    IN  ~fails =>
            /\ gen'.pc = "stream" /\ ~gen'.raised
            /\ DOMAIN gen'.pending_tools = DOMAIN gen.pending_tools \ {id}
            /\ ~known => gen'.pending_tools = gen.pending_tools
            /\ gen.has_callback =>
                   /\ Len(gen'.log) = Len(gen.log) + 1
                   /\ Last(gen'.log).kind = "tool_result"
                   /\ Last(gen'.log).tool_id = id
                   /\ Last(gen'.log).tool_name =
                          (IF known THEN gen.pending_tools[id].name ELSE "unknown")
                   /\ Last(gen'.log).summary =
                          (IF known THEN gen.pending_tools[id].summary
                           ELSE "Tool completed")

\* the end of the stream reports nothing and leaves nothing of the map
DiscardedAtEnd ==
    /\ gen.pc = "stream" /\ gen'.pc = "returned"
    => /\ gen'.pending_tools = EmptyDict
       /\ gen'.log = gen.log

\* C29: during the stream the pending map holds exactly the ids announced by a
\* tool use that no tool result has followed; a result removes the entry of its
\* id; a result for an id not in the map does not raise, leaves the map as it is
\* and is reported as unknown / Tool completed; at the end of the stream the
\* entries still pending are dropped without a report.
C29_PendingToolMap ==
    /\ []PendingExact
    /\ [][ToolResultStep => ToolResultEffect]_vars
    /\ [][DiscardedAtEnd]_vars

C29_Witness ==
    /\ gen.pc = "returned"
    /\ gen.has_callback
    /\ Len(gen.handled) = 3
    /\ Outstanding(BlocksOf(gen.handled)) = {"t2"}
    /\ \E i \in 1..Len(gen.log) :
           /\ gen.log[i].kind = "tool_result"
           /\ gen.log[i].tool_id = "t9"
           /\ gen.log[i].tool_name = "unknown"
           /\ gen.log[i].summary = "Tool completed"
    /\ \E i \in 1..Len(gen.log) :
           /\ gen.log[i].kind = "tool_result"
           /\ gen.log[i].tool_name = "Edit"
           /\ gen.log[i].diff_info = "file updated"
    /\ gen.pending_tools = EmptyDict

\* C30: a claude run whose result object has is_error set returns success
\* FALSE, also when no error-type message was yielded.
C30_ClaudeResultErrorFails ==
    \A t \in Tasks :
        (/\ pc[t] = "returned" /\ ClaudeRun(t) /\ Streamed(t)
         /\ \E i \in 1..Len(hist[t].lines) :
                /\ hist[t].lines[i].kind = "ResultMessage"
                /\ hist[t].lines[i].is_error)
        => result[t].success = FALSE

\* the candidate fields of an event in the stated order
CandidateNames == <<"sessionId", "chatId", "session_id", "chat_id", "threadId", "thread_id">>

CandidateValues(event) ==
    LET message == Get(event, "message", EmptyDict)
    IN  [i \in 1..6 |-> Get(event, CandidateNames[i], None)]
        \o [i \in 1..6 |-> Get(message, CandidateNames[i], None)]

\* the first candidate that differs from the id in use
FirstDiffering(event, active_session_id) ==
    LET c == CandidateValues(event)
        hit == {i \in 1..Len(c) : Truthy(c[i]) /\ c[i] # active_session_id}
    IN  IF hit = {} THEN None ELSE c[CHOOSE i \in hit : \A j \in hit : i <= j]

\* C31: while no session id is captured, the id stored for an event is its
\* first candidate, in the stated order, that differs from the id in use; an
\* event with no such candidate stores nothing.
C31_FirstDifferingCandidate ==
    (call.fn = "SessionIdAfter" /\ ~Truthy(call.cursor_session_id)) =>
        call.out = FirstDiffering(call.event, call.active_session_id)

IsDriverErrorEnvelope(e) ==
    e.type = "message" /\ Get(e.data.metadata_json, "type", None) = "act_error"

\* C32: the error message that the task driver creates for a failed run is a
\* committed row when its envelope is broadcast to the WebSocket observers.
C32_DriverErrorCommittedFirst ==
    \A t \in Tasks :
        \A i \in 1..Len(ws[t]) :
            IsDriverErrorEnvelope(ws[t][i]) => Committed(t, ws[t][i].data)

\* one request served by one task, scheduled fairly: the event loop keeps
\* running the task, and the child prints a line or closes its stdout
NextLive == Step(1, {"p1"}, DefaultArgs, 1, MaxLines, CursorLines, SdkMessages)

SpecLive == Init /\ [][NextLive]_vars /\ WF_vars(NextLive)

CompleteEvents(t) == {i \in 1..Len(ws[t]) : ws[t][i].type = "act_complete"}

ActCompleted(t) == pc[t] \in {"done", "raised"}

\* the status the engine result stands for
ExpectedStatus(t) ==
    IF Get(result[t], "success", FALSE) THEN "completed" ELSE "failed"

OneCompleteLast(t) ==
    LET n == Len(ws[t])
    IN  /\ n >= 1 /\ ws[t][1].type = "act_start"
        /\ \A i \in 2..n : ws[t][i].type # "act_start"
        /\ CompleteEvents(t) \subseteq {n}
        /\ CompleteEvents(t) # {} <=> ActCompleted(t)
        /\ IF ActCompleted(t)
           THEN /\ ws[t][n].status = ExpectedStatus(t)
                /\ session[t].stored = ws[t][n].status
           ELSE session[t].stored = "running"

C34_ResumeOnlyIssuedIds ==
    \A t \in Tasks :
        (CursorRun(t) /\ BackendStarted(t)) =>
            /\ cur[t].cmd_resume = hist[t].registry_at_start
            /\ "--resume" \in cur[t].cmd_flags <=> Truthy(hist[t].registry_at_start)

\* C34: the id after --resume is the one the registry held when the run began
\* if it held one, and otherwise the session_id the Orchestrator passed, its
\* own chat-session id; --resume is left out only when both are empty.
C34_ResumeStoredOrPassed ==
    \A t \in Tasks :
        (CursorRun(t) /\ BackendStarted(t)) =>
            /\ cur[t].cmd_resume =
                   IF Truthy(hist[t].registry_at_start) THEN hist[t].registry_at_start
                   ELSE IF Truthy(ChatSessionId) THEN ChatSessionId ELSE None
            /\ "--resume" \in cur[t].cmd_flags <=>
                   (Truthy(hist[t].registry_at_start) \/ Truthy(ChatSessionId))

C34_Witness ==
    \E t \in Tasks :
        /\ CursorRun(t) /\ BackendStarted(t) /\ cur[t].spawned
        /\ hist[t].registry_at_start = None
        /\ cur[t].cmd_resume = ChatSessionId
        /\ "--resume" \in cur[t].cmd_flags

\* C35: when the read loop has handled a malformed line, the assistant text of
\* every earlier line has been emitted already, so the chat message of an
\* earlier line comes before the parse-error message of the malformed line.
C35_EmittedInLineOrder ==
    \A t \in Tasks :
        (AtLine(t) /\ Last(hist[t].lines).loads = "JSONDecodeError") =>
            /\ hist[t].yielded # <<>>
            /\ IsParseErrorMessage(Last(hist[t].yielded), Last(hist[t].lines).line_str)
            /\ TextEmitted(hist[t].yielded) = TextRead(hist[t].lines)

HasValueLine(t) == \E i \in 1..Len(hist[t].lines) : hist[t].lines[i].loads = "value"

\* C36: a line that is valid JSON and not an object does not end the run: the
\* read loop goes on to the next line, no execution-failed message is yielded
\* for it, and the run emits all the assistant text it read.
C36_ValueLineTolerated ==
    \A t \in Tasks :
        (CursorRun(t) /\ HasValueLine(t)) =>
            /\ hist[t].exit # "exception"
            /\ \A k \in 1..Len(hist[t].yielded) :
                   Get(hist[t].yielded[k].metadata_json, "error", None) # "execution_failed"
            /\ (Streamed(t) /\ pc[t] = "returned") =>
                   TextEmitted(db_messages[t]) = TextRead(hist[t].lines)

\* C37: no message of the Claude or the Cursor adapter has a top-level
\* changes_made key in its metadata, so the engine's has_changes stays FALSE
\* whatever tools the stream used, the result says has_changes = FALSE, the
\* driver never takes its commit branch and no commit event is sent.
C37_NeverHasChanges ==
    \A t \in Tasks :
        /\ \A k \in 1..Len(hist[t].yielded) :
               "changes_made" \notin DOMAIN hist[t].yielded[k].metadata_json
        /\ ~orc[t].has_changes
        /\ Streamed(t) => result[t].has_changes = FALSE
        /\ pc[t] = "returned" => ~TakesCommitBranch(result[t])
        /\ \A i \in 1..Len(ws[t]) : ws[t][i].type # "commit"

C37_Witness ==
    \E t \in Tasks :
        /\ pc[t] = "done" /\ Streamed(t) /\ result[t].success
        /\ \E k \in 1..Len(hist[t].yielded) :
               /\ hist[t].yielded[k].message_type = "tool_use"
               /\ Get(hist[t].yielded[k].metadata_json, "tool_name", None) = "Write"
        /\ result[t].has_changes = FALSE
        /\ ws[t][Len(ws[t])] = [type |-> "act_complete", status |-> "completed"]

\* C38: get_session_id(p, c) returns the value the project record holds at
\* the time of the call, also after an adapter wrote a new cursor session id
\* to the record behind the manager's back.
C38_GetReturnsRecord ==
    (ops # <<>> /\ Last(ops).op = "get") =>
        ret = SessionColumn(Last(ops).project_id, Last(ops).cli_type)

\* C27: normalizing a role twice gives what normalizing it once gives; model, ai
\* and bot give assistant and human gives user, in any letter case.
C27_RoleNormalization ==
    call.fn = "_normalize_role" =>
        /\ call.again = call.out
        /\ Lower(call.role) \in {"model", "ai", "bot"} => call.out = "assistant"
        /\ Lower(call.role) = "human" => call.out = "user"
        /\ call.out = _normalize_role(call.role)

C27_Witness ==
    /\ call.fn = "_normalize_role" /\ call.role = "BOT"
    /\ call.out = "assistant" /\ call.again = "assistant"

====
